---- MODULE Spec2Model ----
(***************************************************************************)
(* A model of the portfolio dashboard generator's templating core:         *)
(* the template engine (cache, load, render), the context binder, the      *)
(* renderers and the final variable substitution.                          *)
(*                                                                         *)
(* Text is modelled as a sequence of one-character strings, so that        *)
(* trimming, matching and replacing are computed character by character.   *)
(* An Option<T> is a sequence of length at most one: <<>> is None and      *)
(* <<x>> is Some(x).  A HashMap is a function on its set of keys.          *)
(***************************************************************************)
EXTENDS Integers, Sequences, FiniteSets, TLC

(***************************************************************************)
(* Bounds of the model.                                                    *)
(***************************************************************************)
\* the number of blocks of a tree handed to the binder
MaxNodes == 3
\* the number of records (metrics, logs and traces together) of a context
MaxRecords == 2
\* the number of engine calls (load_template, render, clear_cache) of a run
MaxCalls == 3
\* the number of times the template file is rewritten or removed in a run
MaxFileWrites == 1
\* the number of ScheduledTask::execute calls of a run
MaxRuns == 5
\* the last instant of the clock
MaxTime == 3
\* the number of add, clear and get_by_time_range calls on the stores of a run
MaxStoreCalls == 5
\* the last instant a record or a query bound may carry
MaxStamp == 2
\* the number of records a store holds
MaxStored == 2
\* the number of loops a Scheduler spawns in a run
MaxLoops == 2
\* the number of tasks added to a Scheduler
MaxTasks == 2
\* the number of rounds of one loop
MaxRounds == 2
\* the number of run and stop calls of a run
MaxApiCalls == 4

(***************************************************************************)
(* Text helpers.                                                           *)
(***************************************************************************)
NoneV == <<>>
Some(x) == <<x>>
IsSome(o) == Len(o) = 1
Unwrap(o) == o[1]

RECURSIVE Concat(_)
\* the concatenation of a sequence of sequences
Concat(ss) == IF ss = <<>> THEN <<>> ELSE Head(ss) \o Concat(Tail(ss))

\* char::is_whitespace on the characters of the model
IsWhitespace(c) == c \in {" ", "\n", "\t", "\r"}

RECURSIVE TrimStart(_)
TrimStart(s) ==
    IF s # <<>> /\ IsWhitespace(Head(s)) THEN TrimStart(Tail(s)) ELSE s

RECURSIVE TrimEnd(_)
TrimEnd(s) ==
    IF s # <<>> /\ IsWhitespace(s[Len(s)])
    THEN TrimEnd(SubSeq(s, 1, Len(s) - 1))
    ELSE s

\* str::trim
Trim(s) == TrimEnd(TrimStart(s))

\* s[i..] starts with pat (i is 1-based)
StartsWithAt(s, i, pat) ==
    /\ i + Len(pat) - 1 <= Len(s)
    /\ SubSeq(s, i, i + Len(pat) - 1) = pat

\* str::contains
Contains(s, pat) == \E i \in 1..(Len(s) + 1) : StartsWithAt(s, i, pat)

DigitChar(d) == <<"0", "1", "2", "3", "4", "5", "6", "7", "8", "9">>[d + 1]

RECURSIVE UsizeToString(_)
\* the Display of an unsigned integer
UsizeToString(n) ==
    IF n < 10 THEN <<DigitChar(n)>>
    ELSE UsizeToString(n \div 10) \o <<DigitChar(n % 10)>>

(***************************************************************************)
(* Reals.  An f64 is modelled as an integer counting tenths: 785 is 78.5.  *)
(***************************************************************************)
AbsInt(t) == IF t < 0 THEN 0 - t ELSE t

\* f64's Display: the shortest text that reads back as the same value
F64ToString(t) ==
    (IF t < 0 THEN <<"-">> ELSE <<>>)
        \o UsizeToString(AbsInt(t) \div 10)
        \o (IF AbsInt(t) % 10 = 0 THEN <<>> ELSE <<".", DigitChar(AbsInt(t) % 10)>>)

IsDigit(c) == c \in {"0", "1", "2", "3", "4", "5", "6", "7", "8", "9"}
DigitVal(c) == CHOOSE d \in 0..9 : DigitChar(d) = c

RECURSIVE DigitsVal(_)
DigitsVal(s) ==
    IF s = <<>> THEN 0 ELSE DigitsVal(SubSeq(s, 1, Len(s) - 1)) * 10 + DigitVal(s[Len(s)])

AllDigits(s) == \A i \in 1..Len(s) : IsDigit(s[i])

\* the index of the first "." of s, or 0
DotAt(s) == IF \E i \in 1..Len(s) : s[i] = "."
            THEN CHOOSE i \in 1..Len(s) : s[i] = "." /\ \A j \in 1..(i - 1) : s[j] # "."
            ELSE 0

\* an unsigned decimal: digits, with at most one "." and one digit after it
ParseDecimal(s) ==
    LET d == DotAt(s)
        ip == IF d = 0 THEN s ELSE SubSeq(s, 1, d - 1)
        fp == IF d = 0 THEN <<>> ELSE SubSeq(s, d + 1, Len(s))
    IN  IF AllDigits(ip) /\ AllDigits(fp) /\ Len(ip) + Len(fp) > 0 /\ Len(fp) <= 1
        THEN Some(DigitsVal(ip) * 10 + DigitsVal(fp))
        ELSE NoneV

\* str::parse::<f64>().ok() on signed decimals with at most one fractional
\* digit; every other text of the model (letters, the empty text) is no number
ParseF64(s) ==
    IF s # <<>> /\ Head(s) = "-"
    THEN LET v == ParseDecimal(Tail(s)) IN IF IsSome(v) THEN Some(0 - Unwrap(v)) ELSE NoneV
    ELSE IF s # <<>> /\ Head(s) = "+" THEN ParseDecimal(Tail(s))
    ELSE ParseDecimal(s)

\* DateTime<Utc>::to_rfc3339 of a whole second s < 60 after the epoch
to_rfc3339(s) ==
    <<"1","9","7","0","-","0","1","-","0","1","T","0","0",":","0","0",":">>
        \o (IF s < 10 THEN <<"0">> ELSE <<>>) \o UsizeToString(s)
        \o <<"+","0","0",":","0","0">>

(***************************************************************************)
(* The block model (renderer.rs).                                          *)
(***************************************************************************)
Block_Heading(level, text) == [kind |-> "Heading", level |-> level, text |-> text]
Block_Paragraph(text) == [kind |-> "Paragraph", text |-> text]
Block_CommandPrompt(text) == [kind |-> "CommandPrompt", text |-> text]
Block_Output(children) == [kind |-> "Output", children |-> children]
Block_Frame(title, content) == [kind |-> "Frame", title |-> title, content |-> content]
Block_Metric(name, value, unit, trend) ==
    [kind |-> "Metric", name |-> name, value |-> value, unit |-> unit, trend |-> trend]
Block_Table(headers, rows) == [kind |-> "Table", headers |-> headers, rows |-> rows]
Block_Trace(name, duration_ms, start_time, status, metadata) ==
    [kind |-> "Trace", name |-> name, duration_ms |-> duration_ms,
     start_time |-> start_time, status |-> status, metadata |-> metadata]
Block_Raw(text) == [kind |-> "Raw", text |-> text]
Block_Container(children) == [kind |-> "Container", children |-> children]

(***************************************************************************)
(* The records of the stores (models/).                                    *)
(***************************************************************************)
\* HashMap::get
MapGet(m, k) == IF k \in DOMAIN m THEN Some(m[k]) ELSE NoneV

\* Metric::get_label
get_label(metric, key) == MapGet(metric.labels, key)

\* Trace::get_metadata
get_metadata(trace, key) == MapGet(trace.metadata, key)

\* LogLevel::as_str, which is LogLevel's Display
LogLevel_as_str(level) ==
    CASE level = "Debug" -> <<"D","E","B","U","G">>
      [] level = "Info" -> <<"I","N","F","O">>
      [] level = "Warning" -> <<"W","A","R","N","I","N","G">>
      [] level = "Error" -> <<"E","R","R","O","R">>

(***************************************************************************)
(* The context binder (engine.rs, process_blocks).                         *)
(***************************************************************************)
S_metrics == <<"@","m","e","t","r","i","c","s">>
S_logs == <<"@","l","o","g","s">>
S_traces == <<"@","t","r","a","c","e","s">>
\* the keys the binder looks up
K_trend == <<"t","r","e","n","d">>
K_unit == <<"u","n","i","t">>
K_status == <<"s","t","a","t","u","s">>

\* the Metric block of one metric record
BindMetric(metric) ==
    LET t == get_label(metric, K_trend)
        trend == IF IsSome(t) THEN ParseF64(Unwrap(t)) ELSE NoneV
        unit == get_label(metric, K_unit)
    IN  Block_Metric(metric.name, F64ToString(metric.value), unit, trend)

\* C7, changed: the cells in the order of the fields of LogEntry
BindLogRow_fieldOrder(log) ==
    <<log.message, LogLevel_as_str(log.level), to_rfc3339(log.timestamp), log.source>>

\* the table row of one log entry
BindLogRow(log) ==
    <<to_rfc3339(log.timestamp), LogLevel_as_str(log.level), log.source, log.message>>

\* the Trace block of one trace record
BindTrace(trace) ==
    LET s == get_metadata(trace, K_status)
        status == IF IsSome(s) THEN Unwrap(s) ELSE <<"u","n","k","n","o","w","n">>
    IN  Block_Trace(trace.name, trace.duration_ms, to_rfc3339(trace.start_time),
                    status, trace.metadata)

\* C6, changed: the Metric blocks come in the reverse of the context's order
BindMetrics_reversed(context) ==
    <<Block_Raw(<<"<","!","-","-"," ","M","e","t","r","i","c","s",":"," ">>
                \o UsizeToString(Len(context.metrics)) \o <<" ","-","-",">">>)>>
        \o [i \in 1..Len(context.metrics) |->
               BindMetric(context.metrics[Len(context.metrics) + 1 - i])]

\* the blocks that replace Raw("@metrics")
BindMetrics(context) ==
    <<Block_Raw(<<"<","!","-","-"," ","M","e","t","r","i","c","s",":"," ">>
                \o UsizeToString(Len(context.metrics)) \o <<" ","-","-",">">>)>>
        \o [i \in 1..Len(context.metrics) |-> BindMetric(context.metrics[i])]

\* the blocks that replace Raw("@logs")
BindLogs(context) ==
    <<Block_Raw(<<"<","!","-","-"," ","L","o","g","s",":"," ">>
                \o UsizeToString(Len(context.logs)) \o <<" ","-","-",">">>)>>
        \o (IF context.logs = <<>>
            THEN <<Block_Paragraph(<<"N","o"," ","l","o","g","s"," ","a","v","a","i","l","a","b","l","e",".">>)>>
            ELSE <<Block_Table(<<<<"T","i","m","e","s","t","a","m","p">>,
                                 <<"L","e","v","e","l">>,
                                 <<"S","o","u","r","c","e">>,
                                 <<"M","e","s","s","a","g","e">>>>,
                               [i \in 1..Len(context.logs) |-> BindLogRow(context.logs[i])])>>)

\* the blocks that replace Raw("@traces")
BindTraces(context) ==
    <<Block_Raw(<<"<","!","-","-"," ","T","r","a","c","e","s",":"," ">>
                \o UsizeToString(Len(context.traces)) \o <<" ","-","-",">">>)>>
        \o [i \in 1..Len(context.traces) |-> BindTrace(context.traces[i])]

\* the guard of the three marker arms: content.trim() == marker
IsDirective(block, marker) == block.kind = "Raw" /\ Trim(block.text) = marker

RECURSIVE process_blocks(_, _)

\* C5, changed: the Frame arm does not copy the title
process_blocks_untitled(blocks, context) ==
    LET one(block) ==
            IF IsDirective(block, S_metrics) THEN BindMetrics(context)
            ELSE IF IsDirective(block, S_logs) THEN BindLogs(context)
            ELSE IF IsDirective(block, S_traces) THEN BindTraces(context)
            ELSE IF block.kind = "Container"
                 THEN <<Block_Container(process_blocks(block.children, context))>>
            ELSE IF block.kind = "Frame"
                 THEN <<Block_Frame(NoneV, process_blocks(block.content, context))>>
            ELSE IF block.kind = "Output"
                 THEN <<Block_Output(process_blocks(block.children, context))>>
            ELSE <<block>>
    IN  Concat([i \in 1..Len(blocks) |-> one(blocks[i])])

\* C8, changed: the children of an Output are copied, not bound
process_blocks_shallow(blocks, context) ==
    LET one(block) ==
            IF IsDirective(block, S_metrics) THEN BindMetrics(context)
            ELSE IF IsDirective(block, S_logs) THEN BindLogs(context)
            ELSE IF IsDirective(block, S_traces) THEN BindTraces(context)
            ELSE IF block.kind = "Container"
                 THEN <<Block_Container(process_blocks(block.children, context))>>
            ELSE IF block.kind = "Frame"
                 THEN <<Block_Frame(block.title, process_blocks(block.content, context))>>
            ELSE <<block>>
    IN  Concat([i \in 1..Len(blocks) |-> one(blocks[i])])

\* TemplateEngine::process_blocks: the Vec of its Ok (it builds no Err)
process_blocks(blocks, context) ==
    LET one(block) ==
            IF IsDirective(block, S_metrics) THEN BindMetrics(context)
            ELSE IF IsDirective(block, S_logs) THEN BindLogs(context)
            ELSE IF IsDirective(block, S_traces) THEN BindTraces(context)
            ELSE IF block.kind = "Container"
                 THEN <<Block_Container(process_blocks(block.children, context))>>
            ELSE IF block.kind = "Frame"
                 THEN <<Block_Frame(block.title, process_blocks(block.content, context))>>
            ELSE IF block.kind = "Output"
                 THEN <<Block_Output(process_blocks(block.children, context))>>
            ELSE <<block>>
    IN  Concat([i \in 1..Len(blocks) |-> one(blocks[i])])

(***************************************************************************)
(* The parser (template.rs, TemplateParser).  The cursor is the 1-based    *)
(* index of the next character; line and column only feed the messages of *)
(* the errors and are left out.  A parse function returns POk(pos, val)    *)
(* or PErr(msg), the Err(Error::TemplateError(msg)) of the source.         *)
(***************************************************************************)
\* Error::TemplateError(msg.into()) (error.rs): the variant is the class of
\* the error
Error_TemplateError(msg) == [variant |-> "TemplateError", msg |-> msg]

POk(pos, val) == [ok |-> TRUE, pos |-> pos, val |-> val]
PErr(msg) == [ok |-> FALSE, err |-> Error_TemplateError(msg)]

Letters ==
    {"a","b","c","d","e","f","g","h","i","j","k","l","m",
     "n","o","p","q","r","s","t","u","v","w","x","y","z",
     "A","B","C","D","E","F","G","H","I","J","K","L","M",
     "N","O","P","Q","R","S","T","U","V","W","X","Y","Z"}

\* the letter e with an acute accent, U+00E9: a letter of two bytes
E_acute == "U+00E9"

\* char::len_utf8 on the characters of the model
len_utf8(c) == IF c = E_acute THEN 2 ELSE 1

\* char::is_alphanumeric on the characters of the model
IsAlphanumeric(c) == c \in Letters \/ IsDigit(c) \/ c = E_acute

RECURSIVE str_len(_)
\* str::len: the number of bytes of a text
str_len(s) == IF s = <<>> THEN 0 ELSE len_utf8(Head(s)) + str_len(Tail(s))

\* self.position, the byte offset of the character the cursor stands at
position(content, pos) == str_len(SubSeq(content, 1, pos - 1))

\* str::is_char_boundary: the byte offset b is where a character starts, or
\* the end of the text
is_char_boundary(content, b) ==
    \E p \in 1..(Len(content) + 1) : position(content, p) = b

is_at_end(content, pos) == pos > Len(content)

\* '\0' at the end of the input
peek(content, pos) == IF is_at_end(content, pos) THEN "NUL" ELSE content[pos]

peek_next(content, pos) ==
    IF is_at_end(content, pos) \/ pos + 1 > Len(content) THEN "NUL" ELSE content[pos + 1]

RECURSIVE skip_whitespace(_, _)
\* the cursor after skip_whitespace
skip_whitespace(content, pos) ==
    IF ~is_at_end(content, pos) /\ IsWhitespace(content[pos])
    THEN skip_whitespace(content, pos + 1)
    ELSE pos

\* match_string: whether expected is next; the cursor then moves past it
match_string(content, pos, expected) == StartsWithAt(content, pos, expected)

\* &self.content[self.position..end_pos] of match_string panics when end_pos
\* is inside the text and is not the boundary of a character
match_string_panics(content, pos, expected) ==
    /\ position(content, pos) + Len(expected) <= str_len(content)
    /\ ~is_char_boundary(content, position(content, pos) + Len(expected))

\* what a panic of the parser leaves in place of a result: no Error value
\* is returned, the thread unwinds
Panicked ==
    [ok |-> FALSE,
     err |-> [variant |-> "panic", msg |-> "byte index is not a char boundary"]]

RECURSIVE ScanText(_, _)
ScanText(content, pos) ==
    IF ~is_at_end(content, pos) /\ content[pos] # "@" THEN ScanText(content, pos + 1) ELSE pos

\* parse_text: the run of characters up to the next '@'
parse_text(content, pos) ==
    LET q == ScanText(content, pos) IN POk(q, SubSeq(content, pos, q - 1))

RECURSIVE ScanIdentifier(_, _)
ScanIdentifier(content, pos) ==
    IF ~is_at_end(content, pos) /\ (IsAlphanumeric(content[pos]) \/ content[pos] = "_")
    THEN ScanIdentifier(content, pos + 1)
    ELSE pos

parse_identifier(content, pos) ==
    LET q == ScanIdentifier(content, pos) IN POk(q, SubSeq(content, pos, q - 1))

RECURSIVE ScanUntil_noEscape(_, _, _)
\* a loop that stops at the first end_char, escaped or not
ScanUntil_noEscape(content, pos, end_char) ==
    IF is_at_end(content, pos) \/ content[pos] = end_char THEN pos
    ELSE ScanUntil_noEscape(content, pos + 1, end_char)

RECURSIVE ScanUntil(_, _, _)
\* the loop of parse_until: a backslash before end_char skips both
ScanUntil(content, pos, end_char) ==
    IF is_at_end(content, pos) \/ content[pos] = end_char THEN pos
    ELSE IF content[pos] = "\\" /\ peek_next(content, pos) = end_char
         THEN ScanUntil(content, pos + 2, end_char)
         ELSE ScanUntil(content, pos + 1, end_char)

parse_until(content, pos, end_char) ==
    LET q == ScanUntil(content, pos, end_char)
    IN  IF is_at_end(content, q)
        THEN PErr("Expected end char but reached end of input")
        ELSE POk(q, SubSeq(content, pos, q - 1))

expect_char(content, pos, expected) ==
    IF is_at_end(content, pos) THEN PErr("Expected char but reached end of input")
    ELSE IF content[pos] # expected THEN PErr("Expected char but found another")
    ELSE POk(pos + 1, <<>>)

\* the value v once the closing character has been read
Keep(v, c) == IF ~c.ok THEN c ELSE POk(c.pos, v)

AfterUntil(content, b) == IF ~b.ok THEN b ELSE Keep(b.val, expect_char(content, b.pos, "}"))

AfterOpen(content, a) == IF ~a.ok THEN a ELSE AfterUntil(content, parse_until(content, a.pos, "}"))

\* expect_char('{'), parse_until('}'), expect_char('}'): one argument group
ParseBraceArg(content, pos) == AfterOpen(content, expect_char(content, pos, "{"))

OptionOf(a) == IF a.ok THEN POk(a.pos, Some(a.val)) ELSE a

\* an argument group that is read only when a '{' is next
ParseOptionalArg(content, pos) ==
    IF peek(content, pos) = "{" THEN OptionOf(ParseBraceArg(content, pos)) ELSE POk(pos, NoneV)

\* the arguments read so far, in order, are the val of the parse state
Begin(pos) == POk(pos, <<>>)
Push(vals, a) == IF ~a.ok THEN a ELSE POk(a.pos, Append(vals, a.val))
\* the next argument group, after the ones of r
Arg(content, r) == IF ~r.ok THEN r ELSE Push(r.val, ParseBraceArg(content, r.pos))
\* the next optional argument group, after the ones of r
OptArg(content, r) == IF ~r.ok THEN r ELSE Push(r.val, ParseOptionalArg(content, r.pos))

\* str::parse::<usize>: digits, after an optional '+'
ParseUsize(s) ==
    LET d == IF s # <<>> /\ Head(s) = "+" THEN Tail(s) ELSE s
    IN  IF d # <<>> /\ AllDigits(d) THEN Some(DigitsVal(d)) ELSE NoneV

RECURSIVE ScanBody(_, _, _)
\* the brace-depth loop of output and frame: <<cursor, depth>> when it ends
ScanBody(content, pos, depth) ==
    IF depth > 0 /\ ~is_at_end(content, pos)
    THEN ScanBody(content, pos + 1,
                  IF content[pos] = "{" THEN depth + 1
                  ELSE IF content[pos] = "}" THEN depth - 1 ELSE depth)
    ELSE <<pos, depth>>

RECURSIVE Split(_, _)
\* str::split(sep)
Split(s, sep) ==
    IF \E i \in 1..Len(s) : s[i] = sep
    THEN LET i == CHOOSE i \in 1..Len(s) : s[i] = sep /\ \A j \in 1..(i - 1) : s[j] # sep
         IN  <<SubSeq(s, 1, i - 1)>> \o Split(SubSeq(s, i + 1, Len(s)), sep)
    ELSE <<s>>

\* split('|') with every cell trimmed
SplitCells(s) == LET cells == Split(s, "|") IN [i \in 1..Len(cells) |-> Trim(cells[i])]

\* HashMap::insert
MapInsert(m, k, v) == [x \in (DOMAIN m) \cup {k} |-> IF x = k THEN v ELSE m[x]]

EmptyMap == [x \in {} |-> <<>>]

HeadingLevel(a) ==
    IF ~a.ok THEN a
    ELSE IF ~IsSome(ParseUsize(a.val)) THEN PErr("Invalid heading level")
    ELSE POk(a.pos, <<Unwrap(ParseUsize(a.val))>>)

HeadingMake(r) == IF ~r.ok THEN r ELSE POk(r.pos, Some(Block_Heading(r.val[1], r.val[2])))

parse_heading_directive(content, pos) ==
    HeadingMake(Arg(content, HeadingLevel(ParseBraceArg(content, pos))))

ParagraphMake(a) == IF ~a.ok THEN a ELSE POk(a.pos, Some(Block_Paragraph(a.val)))

parse_paragraph_directive(content, pos) == ParagraphMake(ParseBraceArg(content, pos))

CommandMake(a) == IF ~a.ok THEN a ELSE POk(a.pos, Some(Block_CommandPrompt(a.val)))

parse_command_directive(content, pos) == CommandMake(ParseBraceArg(content, pos))

RawMake(a) == IF ~a.ok THEN a ELSE POk(a.pos, Some(Block_Raw(a.val)))

parse_raw_directive(content, pos) == RawMake(ParseBraceArg(content, pos))

RECURSIVE parse(_)

NestedResult(pos, nested) ==
    IF ~nested.ok THEN [ok |-> FALSE, err |-> nested.err] ELSE POk(pos, nested.blocks)

\* e is <<cursor, depth>> after the brace-depth loop that started at start
NestedSlice(content, start, e, what) ==
    IF e[2] > 0 THEN PErr(what)
    ELSE NestedResult(e[1], parse(SubSeq(content, start, e[1] - 2)))

NestedAfterOpen(content, a, what) ==
    IF ~a.ok THEN a ELSE NestedSlice(content, a.pos, ScanBody(content, a.pos, 1), what)

\* the body of output and frame: the slice up to the matching '}', parsed
\* by a parser of its own
ParseNestedBody(content, pos, what) ==
    NestedAfterOpen(content, expect_char(content, pos, "{"), what)

OutputMake(b) == IF ~b.ok THEN b ELSE POk(b.pos, Some(Block_Output(b.val)))

parse_output_directive(content, pos) ==
    OutputMake(ParseNestedBody(content, pos, "Unclosed output block"))

FrameMake(title, b) == IF ~b.ok THEN b ELSE POk(b.pos, Some(Block_Frame(title, b.val)))

FrameBody(content, t) ==
    IF ~t.ok THEN t ELSE FrameMake(t.val, ParseNestedBody(content, t.pos, "Unclosed frame block"))

parse_frame_directive(content, pos) == FrameBody(content, ParseOptionalArg(content, pos))

\* the trend of @metric: trend_str.parse::<f64>() of the fourth argument
MetricMake(r) ==
    IF ~r.ok THEN r
    ELSE IF IsSome(r.val[4]) /\ ~IsSome(ParseF64(Unwrap(r.val[4])))
         THEN PErr("Invalid trend value")
    ELSE POk(r.pos, Some(Block_Metric(r.val[1], r.val[2], r.val[3],
                                      IF IsSome(r.val[4]) THEN ParseF64(Unwrap(r.val[4]))
                                      ELSE NoneV)))

parse_metric_directive(content, pos) ==
    MetricMake(OptArg(content, OptArg(content, Arg(content, Arg(content, Begin(pos))))))

Block_LogEntry(message, level, timestamp, source) ==
    [kind |-> "LogEntry", message |-> message, level |-> level,
     timestamp |-> timestamp, source |-> source]

LogMake(r) ==
    IF ~r.ok THEN r
    ELSE POk(r.pos, Some(Block_LogEntry(r.val[1], r.val[2], r.val[3], r.val[4])))

parse_log_directive(content, pos) ==
    LogMake(OptArg(content, OptArg(content, Arg(content, Arg(content, Begin(pos))))))

RECURSIVE ParseRows(_, _, _)

RowsNext(content, rows, a) ==
    IF ~a.ok THEN a
    ELSE ParseRows(content, skip_whitespace(content, a.pos), Append(rows, SplitCells(a.val)))

\* the @row loop of parse_table_directive: POk(cursor, rows)
ParseRows(content, pos, rows) ==
    IF match_string(content, pos, <<"@","r","o","w">>)
    THEN RowsNext(content, rows, ParseBraceArg(content, pos + 4))
    ELSE POk(pos, rows)

TableMake(headers, rows, c) == IF ~c.ok THEN c ELSE POk(c.pos, Some(Block_Table(headers, rows)))

TableClose(content, headers, r) ==
    IF ~r.ok THEN r ELSE TableMake(headers, r.val, expect_char(content, r.pos, "}"))

TableRows(content, h) ==
    IF ~h.ok THEN h ELSE TableClose(content, h.val, ParseRows(content, h.pos, <<>>))

TableHeadersArg(content, g) ==
    IF ~g.ok THEN g ELSE POk(skip_whitespace(content, g.pos), SplitCells(g.val))

TableHeaders(content, pos) ==
    IF match_string(content, pos, <<"@","h","e","a","d","e","r","s">>)
    THEN TableHeadersArg(content, ParseBraceArg(content, pos + 8))
    ELSE POk(pos, <<>>)

TableOpen(content, a) ==
    IF ~a.ok THEN a
    ELSE TableRows(content, TableHeaders(content, skip_whitespace(content, a.pos)))

parse_table_directive(content, pos) == TableOpen(content, expect_char(content, pos, "{"))

RECURSIVE ParseMeta(_, _, _)

MetaNext(content, metadata, kv) ==
    IF ~kv.ok THEN kv
    ELSE ParseMeta(content, kv.pos, MapInsert(metadata, kv.val[1], kv.val[2]))

\* the @meta loop of parse_trace_directive: POk(cursor, metadata)
ParseMeta(content, pos, metadata) ==
    IF match_string(content, pos, <<"@","m","e","t","a">>)
    THEN MetaNext(content, metadata, Arg(content, Arg(content, Begin(pos + 5))))
    ELSE POk(pos, metadata)

\* str::parse::<u64>
ParseU64(s) == ParseUsize(s)

\* duration_str.parse::<u64>() of the second argument
TraceDuration(r) ==
    IF ~r.ok THEN r
    ELSE IF ~IsSome(ParseU64(r.val[2])) THEN PErr("Invalid duration")
    ELSE r

TraceMetaClose(content, vals, g) ==
    IF ~g.ok THEN g ELSE Push(vals, Keep(g.val, expect_char(content, g.pos, "}")))

\* the optional metadata group of @trace
TraceMeta(content, r) ==
    IF ~r.ok THEN r
    ELSE IF peek(content, r.pos) = "{"
         THEN TraceMetaClose(content, r.val, ParseMeta(content, r.pos + 1, EmptyMap))
    ELSE POk(r.pos, Append(r.val, EmptyMap))

TraceMake(r) ==
    IF ~r.ok THEN r
    ELSE POk(r.pos, Some(Block_Trace(r.val[1], Unwrap(ParseU64(r.val[2])),
                                     r.val[3], r.val[4], r.val[5])))

parse_trace_directive(content, pos) ==
    TraceMake(TraceMeta(content,
        Arg(content, Arg(content, TraceDuration(Arg(content, Arg(content, Begin(pos))))))))

\* the match of parse_directive on the identifier id.val
Dispatch(content, id) ==
    CASE id.val = <<"h","e","a","d","i","n","g">> -> parse_heading_directive(content, id.pos)
      [] id.val = <<"p","a","r","a","g","r","a","p","h">> -> parse_paragraph_directive(content, id.pos)
      [] id.val = <<"c","o","m","m","a","n","d">> -> parse_command_directive(content, id.pos)
      [] id.val = <<"o","u","t","p","u","t">> -> parse_output_directive(content, id.pos)
      [] id.val = <<"f","r","a","m","e">> -> parse_frame_directive(content, id.pos)
      [] id.val = <<"m","e","t","r","i","c">> -> parse_metric_directive(content, id.pos)
      [] id.val = <<"l","o","g">> -> parse_log_directive(content, id.pos)
      [] id.val = <<"t","a","b","l","e">> -> parse_table_directive(content, id.pos)
      [] id.val = <<"t","r","a","c","e">> -> parse_trace_directive(content, id.pos)
      [] id.val = <<"r","a","w">> -> parse_raw_directive(content, id.pos)
      [] OTHER -> PErr("Unknown directive")

parse_directive(content, pos) == Dispatch(content, parse_identifier(content, pos))

\* the @var arm of parse_block: the block keeps the directive's own text
VarMake(a) ==
    IF ~a.ok THEN a ELSE POk(a.pos, Some(Block_Raw(<<"@","v","a","r","{">> \o a.val \o <<"}">>)))

\* the text arm of parse_block
TextMake(t) ==
    IF t.val = <<>> THEN POk(t.pos, NoneV) ELSE POk(t.pos, Some(Block_Paragraph(t.val)))

\* parse_block after skip_whitespace has left the cursor at pos
BlockAt(content, pos) ==
    IF is_at_end(content, pos) THEN POk(pos, NoneV)
    ELSE IF content[pos] = "@"
    THEN IF match_string_panics(content, pos + 1, <<"m","e","t","r","i","c","s">>)
         THEN Panicked
         ELSE IF match_string(content, pos + 1, <<"m","e","t","r","i","c","s">>)
         THEN POk(pos + 8, Some(Block_Raw(S_metrics)))
         ELSE IF match_string_panics(content, pos + 1, <<"l","o","g","s">>)
         THEN Panicked
         ELSE IF match_string(content, pos + 1, <<"l","o","g","s">>)
         THEN POk(pos + 5, Some(Block_Raw(S_logs)))
         ELSE IF match_string_panics(content, pos + 1, <<"t","r","a","c","e","s">>)
         THEN Panicked
         ELSE IF match_string(content, pos + 1, <<"t","r","a","c","e","s">>)
         THEN POk(pos + 7, Some(Block_Raw(S_traces)))
         ELSE IF match_string_panics(content, pos + 1, <<"v","a","r">>)
         THEN Panicked
         ELSE IF match_string(content, pos + 1, <<"v","a","r">>)
         THEN VarMake(ParseBraceArg(content, pos + 4))
         ELSE parse_directive(content, pos + 1)
    ELSE TextMake(parse_text(content, pos))

\* parse_block: POk(cursor, Some(block)), POk(cursor, None) at the end, or PErr
parse_block(content, pos) == BlockAt(content, skip_whitespace(content, pos))

RECURSIVE ParseLoop(_, _, _)

LoopStep(content, blocks, r) ==
    IF ~r.ok THEN [ok |-> FALSE, err |-> r.err]
    ELSE IF ~IsSome(r.val) THEN [ok |-> TRUE, blocks |-> blocks]
    ELSE ParseLoop(content, r.pos, Append(blocks, Unwrap(r.val)))

\* the loop of parse: blocks are pushed until parse_block yields None
ParseLoop(content, pos, blocks) == LoopStep(content, blocks, parse_block(content, pos))

\* TemplateParser::parse on a fresh parser over content
parse(content) == ParseLoop(content, 1, <<>>)

TemplateOf(name, content, r) ==
    IF ~r.ok THEN [ok |-> FALSE, err |-> r.err]
    ELSE [ok |-> TRUE,
          val |-> [name |-> name, content |-> content, blocks |-> r.blocks,
                   variables |-> EmptyMap]]

\* Template::from_string
Template_from_string(name, content) == TemplateOf(name, content, parse(content))

(***************************************************************************)
(* The renderers (renderer.rs, html_renderer.rs, text_renderer.rs).        *)
(* Rendered text is a sequence of characters; a fixed piece of markup that *)
(* the source writes as one literal is one element of the sequence.  The   *)
(* blocks rendered so far are Heading, Paragraph, CommandPrompt, Output,   *)
(* Table, Raw and Container, and the HTML Frame.                           *)
(***************************************************************************)
DEFAULT_TERMINAL_WIDTH == 80

\* HtmlRenderer::new
HtmlRenderer_new == [kind |-> "html", additional_classes |-> <<>>, include_inline_css |-> TRUE]

\* TextRenderer::new
TextRenderer_new ==
    [kind |-> "text", terminal_width |-> DEFAULT_TERMINAL_WIDTH, ascii_only |-> FALSE]

\* the index of the leftmost match of pat in s; s contains pat
FirstMatch(s, pat) ==
    CHOOSE i \in 1..Len(s) :
        StartsWithAt(s, i, pat) /\ \A j \in 1..(i - 1) : ~StartsWithAt(s, j, pat)

RECURSIVE Replace(_, _, _)
\* str::replace: every non-overlapping match of pat, leftmost first; what is
\* put in is not searched (pat is never empty here)
Replace(s, pat, to) ==
    IF ~Contains(s, pat) THEN s
    ELSE SubSeq(s, 1, FirstMatch(s, pat) - 1) \o to
         \o Replace(SubSeq(s, FirstMatch(s, pat) + Len(pat), Len(s)), pat, to)

escape_html(text) ==
    Replace(Replace(Replace(Replace(Replace(text,
        <<"&">>, <<"&","a","m","p",";">>),
        <<"<">>, <<"&","l","t",";">>),
        <<">">>, <<"&","g","t",";">>),
        <<"\"">>, <<"&","q","u","o","t",";">>),
        <<"'">>, <<"&","#","3","9",";">>)

RECURSIVE SplitWhitespace(_)
\* str::split_whitespace: the maximal runs of non-whitespace
SplitWhitespace(s) ==
    LET t == TrimStart(s)
    IN  IF t = <<>> THEN <<>>
        ELSE LET e == IF \E i \in 1..Len(t) : IsWhitespace(t[i])
                      THEN CHOOSE i \in 1..Len(t) :
                               IsWhitespace(t[i]) /\ \A j \in 1..(i - 1) : ~IsWhitespace(t[j])
                      ELSE Len(t) + 1
             IN  <<SubSeq(t, 1, e - 1)>> \o SplitWhitespace(SubSeq(t, e, Len(t)))

\* " ".repeat(n)
Spaces(n) == [i \in 1..n |-> " "]

RECURSIVE WrapWords(_, _, _, _, _, _)
\* the loop of wrap_text over the words left
WrapWords(words, indent, available_width, result, current_line, current_width) ==
    IF words = <<>>
    THEN IF current_line # <<>> THEN result \o current_line ELSE result
    ELSE LET word == Head(words)
             word_width == Len(word)
             brk == current_width + word_width + 1 > available_width /\ current_line # <<>>
             res1 == IF brk THEN result \o current_line \o <<"\n">> ELSE result
             line1 == IF brk THEN Spaces(indent) ELSE current_line
             width1 == IF brk THEN indent ELSE current_width
             line2 == IF line1 # <<>> THEN Append(line1, " ") ELSE line1
             width2 == IF line1 # <<>> THEN width1 + 1 ELSE width1
         IN  WrapWords(Tail(words), indent, available_width, res1,
                       line2 \o word, width2 + word_width)

\* TextRenderer::wrap_text
wrap_text(renderer, text, indent) ==
    LET available_width ==
            IF renderer.terminal_width >= indent THEN renderer.terminal_width - indent ELSE 0
    IN  IF available_width <= 10 THEN text
        ELSE WrapWords(SplitWhitespace(text), indent, available_width, <<>>, <<>>, 0)

\* render_paragraph of both renderers
render_paragraph(renderer, text) ==
    IF renderer.kind = "html"
    THEN <<"<p class=\"terminal-paragraph\">">> \o escape_html(text) \o <<"</p>">>
    ELSE wrap_text(renderer, text, 0) \o <<"\n", "\n">>

\* render_command_prompt of both renderers
render_command_prompt(renderer, command) ==
    IF renderer.kind = "html"
    THEN <<"<div class=\"terminal-command\">">> \o escape_html(command) \o <<"</div>">>
    ELSE <<"$", " ">> \o command \o <<"\n">>

\* render_raw of both renderers
render_raw(renderer, content) == content

\* usize::min(6).max(1)
ClampLevel(level) == IF level > 6 THEN 6 ELSE IF level < 1 THEN 1 ELSE level

\* a render_heading that takes the level as it is
render_heading_unclamped(renderer, level, text) ==
    IF renderer.kind = "html"
    THEN <<"<h">> \o UsizeToString(level)
             \o <<" class=\"terminal-heading terminal-heading-">> \o UsizeToString(level)
             \o <<"\">">> \o escape_html(text) \o <<"</h">> \o UsizeToString(level) \o <<">">>
    ELSE text \o <<"\n">>
             \o (IF level = 1 THEN [i \in 1..Len(text) |-> "="] \o <<"\n", "\n">>
                 ELSE IF level = 2 THEN [i \in 1..Len(text) |-> "-"] \o <<"\n", "\n">>
                 ELSE IF level = 3 THEN [i \in 1..Len(text) |-> "~"] \o <<"\n", "\n">>
                 ELSE <<"\n">>)

\* render_heading of both renderers
render_heading(renderer, level, text) ==
    render_heading_unclamped(renderer, ClampLevel(level), text)

\* HtmlRenderer::render_table
HtmlRenderer_render_table(headers, rows) ==
    <<"<table class=\"terminal-table\"><thead>">>
        \o (IF headers # <<>>
            THEN <<"<tr>">>
                     \o Concat([i \in 1..Len(headers) |->
                                   <<"<th>">> \o escape_html(headers[i]) \o <<"</th>">>])
                     \o <<"</tr>">>
            ELSE <<>>)
        \o <<"</thead><tbody>">>
        \o Concat([r \in 1..Len(rows) |->
                      <<"<tr>">>
                          \o Concat([i \in 1..Len(rows[r]) |->
                                        <<"<td>">> \o escape_html(rows[r][i]) \o <<"</td>">>])
                          \o <<"</tr>">>])
        \o <<"</tbody></table>">>

\* BoxChars::ascii and BoxChars::unicode; a glyph is one character
BoxChars_ascii ==
    [horizontal |-> "-", vertical |-> "|", top_left |-> "+", top_right |-> "+",
     bottom_left |-> "+", bottom_right |-> "+", cross |-> "+", tee_right |-> "+",
     tee_left |-> "+", tee_down |-> "+", tee_up |-> "+"]

BoxChars_unicode ==
    [horizontal |-> "U+2500", vertical |-> "U+2502", top_left |-> "U+250C",
     top_right |-> "U+2510", bottom_left |-> "U+2514", bottom_right |-> "U+2518",
     cross |-> "U+253C", tee_right |-> "U+251C", tee_left |-> "U+2524",
     tee_down |-> "U+252C", tee_up |-> "U+2534"]

\* TextRenderer::box_chars
box_chars(renderer) == IF renderer.ascii_only THEN BoxChars_ascii ELSE BoxChars_unicode

MaxOf(a, b) == IF a >= b THEN a ELSE b

RECURSIVE MaxRowLen(_)
\* rows.iter().map(|row| row.len()).max().unwrap_or(0)
MaxRowLen(rows) == IF rows = <<>> THEN 0 ELSE MaxOf(Len(Head(rows)), MaxRowLen(Tail(rows)))

\* col_widths after one pass over the cells of a header line or a row
Widen(col_widths, cells) ==
    [i \in 1..Len(col_widths) |->
        IF i <= Len(cells) THEN MaxOf(col_widths[i], Len(cells[i])) ELSE col_widths[i]]

\* a pass that looks at the header line only and leaves the rows out
WidenRows_headersOnly(col_widths, rows) == col_widths

RECURSIVE WidenRows(_, _)
\* the pass of format_table over every row
WidenRows(col_widths, rows) ==
    IF rows = <<>> THEN col_widths ELSE WidenRows(Widen(col_widths, Head(rows)), Tail(rows))

\* col_widths of format_table
ColWidths(headers, rows) ==
    WidenRows(Widen([i \in 1..MaxOf(Len(headers), MaxRowLen(rows)) |-> 0], headers), rows)

\* a usize subtraction: None when it underflows, which panics
usize_sub(a, b) == IF a >= b THEN Some(a - b) ELSE NoneV

\* one border line of format_table between left and right, joint between columns
BorderLine(bc, col_widths, left, joint, right) ==
    <<left>>
        \o Concat([i \in 1..Len(col_widths) |->
                      [k \in 1..(col_widths[i] + 2) |-> bc.horizontal]
                          \o (IF i - 1 < Unwrap(usize_sub(Len(col_widths), 1))
                              THEN <<joint>> ELSE <<>>)])
        \o <<right, "\n">>

\* format!(" {:<width$} ", cell): the cell, padded on the right, never cut
PadCell(cell, width) ==
    <<" ">> \o cell \o Spaces(IF width > Len(cell) THEN width - Len(cell) ELSE 0) \o <<" ">>

\* the line of the header or of one row
CellLine(bc, col_widths, cells) ==
    <<bc.vertical>>
        \o Concat([i \in 1..Len(cells) |->
                      PadCell(cells[i], IF i <= Len(col_widths) THEN col_widths[i] ELSE 0)
                          \o <<bc.vertical>>])
        \o <<"\n">>

\* whether format_table panics: a subtraction it evaluates underflows
format_table_panics(headers, rows) ==
    /\ ~(headers = <<>> /\ rows = <<>>)
    /\ \/ /\ ColWidths(headers, rows) # <<>>
          /\ usize_sub(Len(ColWidths(headers, rows)), 1) = NoneV
       \/ /\ rows # <<>>
          /\ usize_sub(Len(rows), 1) = NoneV

\* format_table once col_widths is known
TableText(bc, col_widths, headers, rows) ==
    BorderLine(bc, col_widths, bc.top_left, bc.tee_down, bc.top_right)
        \o (IF headers # <<>>
            THEN CellLine(bc, col_widths, headers)
                     \o BorderLine(bc, col_widths, bc.tee_right, bc.cross, bc.tee_left)
            ELSE <<>>)
        \o Concat([r \in 1..Len(rows) |->
                      CellLine(bc, col_widths, rows[r])
                          \o (IF r - 1 < Unwrap(usize_sub(Len(rows), 1))
                              THEN BorderLine(bc, col_widths, bc.tee_right, bc.cross, bc.tee_left)
                              ELSE <<>>)])
        \o BorderLine(bc, col_widths, bc.bottom_left, bc.tee_up, bc.bottom_right)

\* TextRenderer::format_table
format_table(renderer, headers, rows) ==
    IF headers = <<>> /\ rows = <<>> THEN <<>>
    ELSE TableText(box_chars(renderer), ColWidths(headers, rows), headers, rows)

\* render_table of both renderers: Ok(text), or a panic
render_table(renderer, headers, rows) ==
    IF renderer.kind = "html" THEN [ok |-> TRUE, val |-> HtmlRenderer_render_table(headers, rows)]
    ELSE IF format_table_panics(headers, rows) THEN [ok |-> FALSE, err |-> "panic"]
    ELSE [ok |-> TRUE, val |-> format_table(renderer, headers, rows)]

\* str::lines: the pieces between line feeds, without a last empty piece
str_lines(text) ==
    LET pieces == Split(text, "\n")
    IN  IF pieces[Len(pieces)] = <<>> THEN SubSeq(pieces, 1, Len(pieces) - 1) ELSE pieces

RECURSIVE MaxLineWidth(_)
\* lines.iter().map(|line| line.chars().count()).max().unwrap_or(0)
MaxLineWidth(lines) ==
    IF lines = <<>> THEN 0 ELSE MaxOf(Len(Head(lines)), MaxLineWidth(Tail(lines)))

MinOf(a, b) == IF a <= b THEN a ELSE b

\* title.map(|t| t.chars().count() + 2).unwrap_or(0)
TitleWidth(title) == IF IsSome(title) THEN Len(Unwrap(title)) + 2 ELSE 0

\* max_line_width.max(title_width).min(self.terminal_width - 4) + 4, where
\* terminal_width is at least 4; below 4 the subtraction underflows: a build
\* without overflow checks wraps it to a number greater than every width,
\* and min returns its other operand
BoxWidth(renderer, lines, title) ==
    (IF renderer.terminal_width >= 4
     THEN MinOf(MaxOf(MaxLineWidth(lines), TitleWidth(title)), renderer.terminal_width - 4)
     ELSE MaxOf(MaxLineWidth(lines), TitleWidth(title))) + 4

\* whether create_box panics.  With overflow checks every usize subtraction
\* that underflows panics.  Without them the padding wraps to a number near
\* 2^64 and str::repeat panics on it (capacity overflow), so an underflow of
\* a padding panics in every build; the underflow of terminal_width - 4 does
\* so with overflow checks only.
create_box_panics(renderer, lines, title, overflow_checks) ==
    \/ overflow_checks /\ renderer.terminal_width < 4
    \/ /\ IsSome(title)
       /\ BoxWidth(renderer, lines, title) < (Len(Unwrap(title)) + 2) + 2
    \/ \E k \in 1..Len(lines) : BoxWidth(renderer, lines, title) < Len(lines[k]) + 4

\* the top line of create_box, with the title or without (lines 93-110); the
\* title is ASCII, so title_text.len() is its number of characters
BoxTop(bc, box_width, title) ==
    IF IsSome(title)
    THEN <<bc.top_left, " ">> \o Unwrap(title) \o <<" ">>
             \o [k \in 1..(box_width - (Len(Unwrap(title)) + 2) - 2) |-> bc.horizontal]
             \o <<bc.top_right>>
    ELSE <<bc.top_left>> \o [k \in 1..(box_width - 2) |-> bc.horizontal] \o <<bc.top_right>>

\* one content line of create_box (lines 113-123)
BoxLine(bc, box_width, line) ==
    <<bc.vertical, " ">> \o line \o <<" ">> \o Spaces(box_width - Len(line) - 4)
        \o <<" ", bc.vertical, "\n">>

\* TextRenderer::create_box
create_box(renderer, text, title, overflow_checks) ==
    IF create_box_panics(renderer, str_lines(text), title, overflow_checks)
    THEN [ok |-> FALSE, err |-> "panic"]
    ELSE LET bc == box_chars(renderer)
             lines == str_lines(text)
             box_width == BoxWidth(renderer, lines, title)
         IN  [ok |-> TRUE,
              val |-> BoxTop(bc, box_width, title) \o <<"\n">>
                          \o Concat([k \in 1..Len(lines) |-> BoxLine(bc, box_width, lines[k])])
                          \o <<bc.bottom_left>>
                          \o [k \in 1..(box_width - 2) |-> bc.horizontal]
                          \o <<bc.bottom_right>>]

\* TextRenderer::render_frame
TextRenderer_render_frame(renderer, title, content, overflow_checks) ==
    LET b == create_box(renderer, content, title, overflow_checks)
    IN  IF b.ok THEN [ok |-> TRUE, val |-> b.val \o <<"\n">>] ELSE b

\* HtmlRenderer::render_frame
HtmlRenderer_render_frame(title, content) ==
    LET title_html == IF IsSome(title)
                      THEN <<"<div class=\"terminal-frame-title\">">>
                               \o escape_html(Unwrap(title)) \o <<"</div>">>
                      ELSE <<>>
    IN  <<"<div class=\"terminal-frame\">">> \o title_html \o content \o <<"</div>">>

RECURSIVE render_blocks(_, _)

\* render_output of both renderers
render_output(renderer, blocks) ==
    IF renderer.kind = "html"
    THEN <<"<div class=\"terminal-output\">">> \o render_blocks(renderer, blocks) \o <<"</div>">>
    ELSE render_blocks(renderer, blocks) \o <<"\n">>

\* Renderer::render_block, for the blocks rendered so far
render_block(renderer, block) ==
    CASE block.kind = "Heading" -> render_heading(renderer, block.level, block.text)
      [] block.kind = "Paragraph" -> render_paragraph(renderer, block.text)
      [] block.kind = "Table" -> render_table(renderer, block.headers, block.rows).val
      [] block.kind = "CommandPrompt" -> render_command_prompt(renderer, block.text)
      [] block.kind = "Output" -> render_output(renderer, block.children)
      [] block.kind = "Frame" /\ renderer.kind = "html" ->
            HtmlRenderer_render_frame(block.title, render_blocks(renderer, block.content))
      [] block.kind = "Raw" -> render_raw(renderer, block.text)
      [] block.kind = "Container" -> render_blocks(renderer, block.children)

\* Renderer::render_blocks
render_blocks(renderer, blocks) ==
    Concat([i \in 1..Len(blocks) |-> render_block(renderer, blocks[i])])

RECURSIVE Join(_, _)
\* [String]::join
Join(ss, sep) ==
    IF ss = <<>> THEN <<>>
    ELSE IF Len(ss) = 1 THEN ss[1]
    ELSE ss[1] \o sep \o Join(Tail(ss), sep)

\* render_template of both renderers; now is the clock read by the text
\* renderer's footer
render_template(renderer, template_data, now) ==
    LET content == render_blocks(renderer, template_data.blocks)
    IN  IF renderer.kind = "html"
        THEN LET class_list == IF renderer.additional_classes = <<>>
                               THEN <<"terminal">>
                               ELSE <<"terminal", " ">> \o Join(renderer.additional_classes, <<" ">>)
                 style_tag == IF renderer.include_inline_css
                              THEN <<"<style>", "terminal css", "</style>">>
                              ELSE <<>>
             IN  <<"<!DOCTYPE html><html lang=\"en\"><head><meta><meta><title>">>
                     \o template_data.template_name \o <<"</title>">> \o style_tag
                     \o <<"</head><body><div class=\"">> \o class_list \o <<"\">">>
                     \o content \o <<"</div></body></html>">>
        ELSE <<"#", " ">> \o template_data.template_name \o <<"\n", "\n">>
                 \o content
                 \o <<"\n", "-", "-", "-", " ", "Generated at ">> \o to_rfc3339(now)
                 \o <<" ", "-", "-", "-", "\n">>

(***************************************************************************)
(* The final substitution (engine.rs).  A HashMap is visited in an order   *)
(* the program does not choose: order is a sequence of all its keys.       *)
(***************************************************************************)
RECURSIVE SubstituteLoop(_, _, _)
SubstituteLoop(result, variables, order) ==
    IF order = <<>> THEN result
    ELSE LET name == Head(order)
             pattern == <<"[", "[">> \o name \o <<"]", "]">>
         IN  SubstituteLoop(Replace(result, pattern, variables[name]), variables, Tail(order))

\* TemplateEngine::substitute_variables_in_content
substitute_variables_in_content(content, variables, order) ==
    SubstituteLoop(content, variables, order)

\* the orders in which a HashMap with these keys may be visited
IterationOrders(keys) ==
    {o \in [1..Cardinality(keys) -> keys] : \A i, j \in DOMAIN o : i # j => o[i] # o[j]}

(***************************************************************************)
(* The template engine (engine.rs) as a state machine.                     *)
(*                                                                         *)
(* Threads call load_template, render and clear_cache on one shared        *)
(* engine while the environment rewrites the template file.  A call is a   *)
(* sequence of steps; pc[p] is the step thread p performs next:            *)
(*   read_lock, lookup, exists, from_file, write_lock, insert              *)
(*       load_template (lines 70-103); the read guard is held in lookup    *)
(*       and the write guard in insert                                     *)
(*   process_blocks, render_template, substitute      the rest of render   *)
(*   clear_lock, clear                                clear_cache          *)
(*   idle, done                                       between calls        *)
(*   panicked                                         the thread is gone   *)
(* Where world.panics is FALSE no step panics while it holds a guard, the  *)
(* lock is never poisoned and the map_err arms of read() and write() are   *)
(* not taken.                                                              *)
(***************************************************************************)
VARIABLES
    world,          \* what the callers and the environment may choose from
    files,          \* the template directory: name -> Option<content>
    template_cache, \* the HashMap behind the RwLock: name -> Template
    rw,             \* the RwLock: the threads holding a read guard, the writer
    pc,             \* the next step of every thread
    call,           \* the call every thread is in
    template,       \* load_template's local: Option<Template>
    work,           \* render's local: the bound blocks, then the rendered text
    result,         \* what the last call of every thread returned: Option<Result>
    ncalls,         \* the calls started so far
    nwrites,        \* the file writes so far
    hist,           \* what has happened, kept for the properties
    stage,          \* the binder on its own: build, bound
    blocks,         \* the tree handed to process_blocks
    context,        \* the context handed to process_blocks
    processed,      \* Option<what process_blocks returned>
    source,         \* the parser on its own: the text handed to parse
    parsed,         \* Option<what parse returned>
    unit_renderer,  \* a renderer on its own: the renderer
    unit_source,    \* the text the block was parsed from, when it was parsed
    unit_block,     \* Option<the block handed to the renderer>
    unit_output,    \* Option<what the renderer returned>
    generation,     \* the generation cycle every thread is in (home_generator.rs)
    output_dir,     \* the output directory: whether it exists, index.html, index.txt
    scheduled_task, \* a ScheduledTask: last_run, success_count, failure_count
    execution,      \* the ScheduledTask::execute call: its position, start_time, result
    utc_now,        \* the clock behind Utc::now()
    task_hist,      \* the results the task has returned, kept for the properties
    stores,         \* the three stores: the Vec behind each RwLock
    store_query,    \* Option<the last get_by_time_range call and what it returned>
    store_hist,     \* the records added to each store since its last clear, kept for the properties
    running,        \* Scheduler.running: the bool behind the Mutex
    tasks,          \* Scheduler.tasks: the Vec<ScheduledTask> behind the Mutex
    tasks_lock,     \* Option<who holds the Mutex of tasks>
    loops,          \* every spawned loop: its position and its round
    api,            \* the run, stop and add_task calls: the last result, a pending add_task
    loop_hist       \* what has happened on the Scheduler, kept for the properties

vars == <<world, files, template_cache, rw, pc, call, template, work, result,
          ncalls, nwrites, hist, stage, blocks, context, processed,
          source, parsed, unit_renderer, unit_source, unit_block, unit_output,
          generation, output_dir, scheduled_task, execution, utc_now, task_hist,
          stores, store_query, store_hist,
          running, tasks, tasks_lock, loops, api, loop_hist>>

engineVars == <<world, files, template_cache, rw, pc, call, template, work, result,
                ncalls, nwrites, hist>>
binderVars == <<stage, blocks, context, processed>>
parserVars == <<source, parsed>>
unitVars == <<unit_renderer, unit_source, unit_block, unit_output>>
generatorVars == <<generation, output_dir>>
schedulerVars == <<scheduled_task, execution, utc_now, task_hist>>
storageVars == <<stores, store_query, store_hist>>
loopVars == <<running, tasks, tasks_lock, loops, api, loop_hist>>

\* what the steps of one part leave alone: the variables of the other parts
outsideEngine == <<binderVars, parserVars, unitVars, generatorVars, schedulerVars, storageVars, loopVars>>
outsideBinder == <<engineVars, parserVars, unitVars, generatorVars, schedulerVars, storageVars, loopVars>>
outsideParser == <<engineVars, binderVars, unitVars, generatorVars, schedulerVars, storageVars, loopVars>>
outsideUnit == <<engineVars, binderVars, parserVars, generatorVars, schedulerVars, storageVars, loopVars>>
outsideGenerator == <<binderVars, parserVars, unitVars, schedulerVars, storageVars, loopVars>>
outsideScheduler == <<engineVars, binderVars, parserVars, unitVars, generatorVars, storageVars, loopVars>>
outsideStorage == <<engineVars, binderVars, parserVars, unitVars, generatorVars, schedulerVars, loopVars>>
outsideLoop == <<engineVars, binderVars, parserVars, unitVars, generatorVars, schedulerVars, storageVars>>

Procs == {"t1", "t2"}

Ok(v) == [ok |-> TRUE, val |-> v]
Err(e) == [ok |-> FALSE, err |-> e]

\* TemplateContext::new().with_variables(variables)
ContextOf(variables) ==
    [variables |-> variables, metrics |-> <<>>, logs |-> <<>>, traces |-> <<>>]

\* a call that goes through load_template
IsLoad(c) == c.kind \in {"load_template", "render"}

\* the state of the history before anything has happened
HistInit ==
    [first |-> NoneV,                         \* the content the first Ok load returned since the last clear
     overwritten |-> FALSE,                   \* an insert has replaced an entry since the last clear
     lastWriter |-> NoneV,                    \* the thread of the last insert since the last clear
     clearedSinceWrite |-> FALSE,             \* the file was changed, and a clear_cache has returned since
     nclears |-> 0,                           \* the clear_cache calls that have returned
     afterFirst |-> [p \in Procs |-> NoneV],  \* hist.first when the call of p started
     sawOverwrite |-> [p \in Procs |-> FALSE],\* hist.overwritten when p looked the name up
     fresh |-> [p \in Procs |-> NoneV],       \* the file when the call of p started after a clear
     fileReads |-> [p \in Procs |-> 0],       \* the file reads of the call of p
     cacheWrites |-> [p \in Procs |-> 0],     \* the cache inserts of the call of p
     hit |-> [p \in Procs |-> FALSE]]         \* the call of p found the name in the cache

\* the history when thread p starts a call on name
HistCall(p, c) ==
    [hist EXCEPT !.afterFirst[p] = IF IsLoad(c) THEN hist.first ELSE NoneV,
                 !.sawOverwrite[p] = FALSE,
                 !.fresh[p] = IF IsLoad(c) /\ hist.clearedSinceWrite
                              THEN files[c.name] ELSE NoneV,
                 !.fileReads[p] = 0,
                 !.cacheWrites[p] = 0,
                 !.hit[p] = FALSE]

\* the history when the call of p returns r
HistReturn(h, p, r) ==
    IF IsLoad(call[p]) /\ r.ok /\ ~IsSome(h.first)
    THEN [h EXCEPT !.first = Some(template[p][1].content)]
    ELSE h

CanCall(p) ==
    /\ p \in world.procs
    /\ pc[p] \in {"idle", "done"}
    /\ generation[p].stage \in {"idle", "returned"}
    /\ ncalls < world.maxCalls

StartCall(p, c, first_pc) ==
    /\ pc' = [pc EXCEPT ![p] = first_pc]
    /\ call' = [call EXCEPT ![p] = c]
    /\ template' = [template EXCEPT ![p] = NoneV]
    /\ work' = [work EXCEPT ![p] = NoneV]
    /\ result' = [result EXCEPT ![p] = NoneV]
    /\ ncalls' = ncalls + 1
    /\ hist' = HistCall(p, c)
    /\ UNCHANGED <<world, files, template_cache, rw, nwrites>>

\* a thread calls engine.load_template(name)
CallLoadTemplate(p) ==
    /\ CanCall(p)
    /\ "load_template" \in world.kinds
    /\ \E name \in world.names :
          StartCall(p, [kind |-> "load_template", name |-> name], "read_lock")
    /\ UNCHANGED outsideEngine

\* a thread calls engine.render(name, context, renderer)
CallRender(p) ==
    /\ CanCall(p)
    /\ "render" \in world.kinds
    /\ \E name \in world.names, ctx \in world.contexts, r \in world.renderers :
          StartCall(p, [kind |-> "render", name |-> name, context |-> ctx, renderer |-> r],
                    "read_lock")
    /\ UNCHANGED outsideEngine

\* a thread calls engine.clear_cache()
CallClearCache(p) ==
    /\ CanCall(p)
    /\ "clear_cache" \in world.kinds
    /\ StartCall(p, [kind |-> "clear_cache"], "clear_lock")
    /\ UNCHANGED outsideEngine

\* what a step of thread p leaves alone besides the variables it names
Return(p, r) ==
    /\ pc' = [pc EXCEPT ![p] = "done"]
    /\ result' = [result EXCEPT ![p] = Some(r)]

\* the step after load_template has its template: return it, or go on with render
AfterLoad(p) == IF call[p].kind = "render" THEN "process_blocks" ELSE "done"

\* the error of the map_err arms of read() and write() (lines 72-76, 93-97
\* and 106-110)
LockError(which) ==
    Error_TemplateError(IF which = "read"
                        THEN "Failed to acquire read lock on template cache"
                        ELSE "Failed to acquire write lock on template cache")

\* template_cache.read() (line 72): blocks while a writer holds the lock; on a
\* poisoned lock it is an Err, which map_err and ? return to the caller
AcquireRead(p) ==
    /\ pc[p] = "read_lock"
    /\ ~IsSome(rw.writer)
    /\ IF rw.poisoned
       THEN /\ Return(p, Err(LockError("read")))
            /\ UNCHANGED rw
       ELSE /\ rw' = [rw EXCEPT !.readers = @ \cup {p}]
            /\ pc' = [pc EXCEPT ![p] = "lookup"]
            /\ UNCHANGED result
    /\ UNCHANGED <<world, files, template_cache, call, template, work,
                   ncalls, nwrites, hist>>
    /\ UNCHANGED outsideEngine

\* C4, changed: the read guard lives to the end of load_template
ReadGuardKept(p) == rw

\* the guard of lines 71-81 is dropped
ReadGuardDropped(p) == [rw EXCEPT !.readers = @ \ {p}]

\* C1, changed: the lookup finds nothing
CacheGet_miss(cache, name) == NoneV

\* cache.get(name) of the read guard: None, or Some(template.clone())
CacheGet(cache, name) == MapGet(cache, name)

\* cache.get(name) under the read guard (lines 78-81), and the guard's drop
LookupRelease(p) ==
    /\ pc[p] = "lookup"
    /\ rw' = ReadGuardDropped(p)
    /\ LET found == CacheGet(template_cache, call[p].name)
           h == [hist EXCEPT !.sawOverwrite[p] = hist.overwritten,
                             !.hit[p] = IsSome(found)]
       IN  IF IsSome(found)
           THEN /\ template' = [template EXCEPT ![p] = found]
                /\ pc' = [pc EXCEPT ![p] = AfterLoad(p)]
                /\ result' = [result EXCEPT ![p] =
                                 IF call[p].kind = "render" THEN NoneV
                                 ELSE Some(Ok(Unwrap(found)))]
                /\ hist' = IF ~IsSome(h.first)
                           THEN [h EXCEPT !.first = Some(Unwrap(found).content)]
                           ELSE h
           ELSE /\ pc' = [pc EXCEPT ![p] = "exists"]
                /\ hist' = h
                /\ UNCHANGED <<template, result>>
    /\ UNCHANGED <<world, files, template_cache, call, work, ncalls, nwrites>>
    /\ UNCHANGED outsideEngine

\* an exists step that remembers the missing file: it puts an empty template
\* under the name before it returns the error
Exists_cachesMissing(p) ==
    /\ pc[p] = "exists"
    /\ IF ~IsSome(files[call[p].name])
       THEN /\ Return(p, Err(Error_TemplateError("Template not found")))
            /\ template_cache' =
                   MapInsert(template_cache, call[p].name,
                             [name |-> call[p].name, content |-> <<>>, blocks |-> <<>>,
                              variables |-> EmptyMap])
       ELSE /\ pc' = [pc EXCEPT ![p] = "from_file"]
            /\ UNCHANGED <<result, template_cache>>
    /\ UNCHANGED <<world, files, rw, call, template, work, ncalls, nwrites, hist>>
    /\ UNCHANGED outsideEngine

\* template_path.exists() (lines 83-88)
Exists(p) ==
    /\ pc[p] = "exists"
    /\ IF ~IsSome(files[call[p].name])
       THEN Return(p, Err(Error_TemplateError("Template not found")))
       ELSE /\ pc' = [pc EXCEPT ![p] = "from_file"]
            /\ UNCHANGED result
    /\ UNCHANGED <<world, files, template_cache, rw, call, template, work,
                   ncalls, nwrites, hist>>
    /\ UNCHANGED outsideEngine

\* Template::from_file (template.rs lines 19-32): the name is the file stem
Template_from_file(name) ==
    IF ~IsSome(files[name]) THEN Err(Error_TemplateError("Failed to read template file"))
    ELSE Template_from_string(name, Unwrap(files[name]))

\* what FromFile does with the Result t of Template::from_file
FromFileResult(p, t) ==
    IF t.ok
    THEN /\ template' = [template EXCEPT ![p] = Some(t.val)]
         /\ pc' = [pc EXCEPT ![p] = "write_lock"]
         /\ UNCHANGED result
    ELSE /\ Return(p, Err(t.err))
         /\ UNCHANGED template

\* Template::from_file(template_path)? (line 90)
FromFile(p) ==
    /\ pc[p] = "from_file"
    /\ FromFileResult(p, Template_from_file(call[p].name))
    /\ hist' = [hist EXCEPT !.fileReads[p] = @ + 1]
    /\ UNCHANGED <<world, files, template_cache, rw, call, work, ncalls, nwrites>>
    /\ UNCHANGED outsideEngine

\* template_cache.write() (lines 93 and 106): blocks while the lock is held
AcquireWrite(p) ==
    /\ pc[p] \in {"write_lock", "clear_lock"}
    /\ rw.readers = {} /\ ~IsSome(rw.writer)
    /\ IF rw.poisoned
       THEN /\ Return(p, Err(LockError("write")))
            /\ UNCHANGED rw
       ELSE /\ rw' = [rw EXCEPT !.writer = Some(p)]
            /\ pc' = [pc EXCEPT ![p] = IF pc[p] = "write_lock" THEN "insert" ELSE "clear"]
            /\ UNCHANGED result
    /\ UNCHANGED <<world, files, template_cache, call, template, work,
                   ncalls, nwrites, hist>>
    /\ UNCHANGED outsideEngine

\* the thread that holds the write guard panics inside cache.insert or
\* cache.clear (HashMap panics when its capacity overflows): the guard is
\* dropped while the thread unwinds, which poisons the lock, and the thread
\* is gone
WriterPanics(p) ==
    /\ world.panics
    /\ pc[p] \in {"insert", "clear"}
    /\ rw' = [rw EXCEPT !.writer = NoneV, !.poisoned = TRUE]
    /\ pc' = [pc EXCEPT ![p] = "panicked"]
    /\ UNCHANGED <<world, files, template_cache, call, template, work, result,
                   ncalls, nwrites, hist>>
    /\ UNCHANGED outsideEngine

\* the write guard is dropped
WriteGuardDropped == [rw EXCEPT !.writer = NoneV]

\* C3, changed: an entry that is there is kept (entry().or_insert)
CacheInsert_keepFirst(cache, name, t) ==
    IF name \in DOMAIN cache THEN cache ELSE MapInsert(cache, name, t)

\* the cache after cache.insert(name, template.clone()) (line 99)
CacheInsert(cache, name, t) == MapInsert(cache, name, t)

\* cache.insert under the write guard (lines 92-100), the guard's drop, and
\* Ok(template) (line 102)
InsertRelease(p) ==
    /\ pc[p] = "insert"
    /\ template_cache' = CacheInsert(template_cache, call[p].name, Unwrap(template[p]))
    /\ rw' = WriteGuardDropped
    /\ pc' = [pc EXCEPT ![p] = AfterLoad(p)]
    /\ result' = [result EXCEPT ![p] =
                     IF call[p].kind = "render" THEN NoneV ELSE Some(Ok(Unwrap(template[p])))]
    /\ hist' = HistReturn([hist EXCEPT !.cacheWrites[p] = @ + 1,
                                       !.lastWriter = Some(p),
                                       !.overwritten =
                                           @ \/ call[p].name \in DOMAIN template_cache],
                          p, Ok(Unwrap(template[p])))
    /\ UNCHANGED <<world, files, call, template, work, ncalls, nwrites>>
    /\ UNCHANGED outsideEngine

\* cache.clear() under the write guard (lines 106-113)
ClearRelease(p) ==
    /\ pc[p] = "clear"
    /\ template_cache' = EmptyMap
    /\ rw' = WriteGuardDropped
    /\ Return(p, Ok(<<>>))
    /\ hist' = [hist EXCEPT !.first = NoneV,
                            !.overwritten = FALSE,
                            !.lastWriter = NoneV,
                            !.clearedSinceWrite = nwrites > 0,
                            !.nclears = @ + 1,
                            !.afterFirst = [q \in Procs |->
                                               IF pc[q] = "done" THEN @[q] ELSE NoneV]]
    /\ UNCHANGED <<world, files, call, template, work, ncalls, nwrites>>
    /\ UNCHANGED outsideEngine

\* self.process_blocks(&template.blocks, context)? (line 124)
ProcessBlocks(p) ==
    /\ pc[p] = "process_blocks"
    /\ work' = [work EXCEPT ![p] =
                   Some(process_blocks(Unwrap(template[p]).blocks, call[p].context))]
    /\ pc' = [pc EXCEPT ![p] = "render_template"]
    /\ UNCHANGED <<world, files, template_cache, rw, call, template, result,
                   ncalls, nwrites, hist>>
    /\ UNCHANGED outsideEngine

\* renderer.render_template(&template_data)? (lines 126-131)
RenderTemplate(p) ==
    /\ pc[p] = "render_template"
    /\ \E now \in world.clock :
          work' = [work EXCEPT ![p] =
                      Some(render_template(call[p].renderer,
                                           [blocks |-> Unwrap(work[p]),
                                            template_name |-> Unwrap(template[p]).name],
                                           now))]
    /\ pc' = [pc EXCEPT ![p] = "substitute"]
    /\ UNCHANGED <<world, files, template_cache, rw, call, template, result,
                   ncalls, nwrites, hist>>
    /\ UNCHANGED outsideEngine

\* substitute_variables_in_content and Ok(final_content) (lines 133-136)
Substitute(p) ==
    /\ pc[p] = "substitute"
    /\ \E order \in IterationOrders(DOMAIN call[p].context.variables) :
          Return(p, Ok(substitute_variables_in_content(
                           Unwrap(work[p]), call[p].context.variables, order)))
    /\ UNCHANGED <<world, files, template_cache, rw, call, template, work, ncalls, nwrites,
                   hist>>
    /\ UNCHANGED outsideEngine

\* the environment rewrites a template file
WriteFile ==
    /\ nwrites < world.maxWrites
    /\ \E name \in world.names, c \in world.contents :
          /\ files[name] # Some(c)
          /\ files' = [files EXCEPT ![name] = Some(c)]
    /\ nwrites' = nwrites + 1
    /\ hist' = [hist EXCEPT !.clearedSinceWrite = FALSE,
                            !.fresh = [q \in Procs |-> NoneV]]
    /\ UNCHANGED <<world, template_cache, rw, pc, call, template, work, result, ncalls>>
    /\ UNCHANGED outsideEngine

\* the environment removes a template file
RemoveFile ==
    /\ nwrites < world.maxWrites
    /\ \E name \in world.names :
          /\ IsSome(files[name])
          /\ files' = [files EXCEPT ![name] = NoneV]
    /\ nwrites' = nwrites + 1
    /\ hist' = [hist EXCEPT !.clearedSinceWrite = FALSE,
                            !.fresh = [q \in Procs |-> NoneV]]
    /\ UNCHANGED <<world, template_cache, rw, pc, call, template, work, result, ncalls>>
    /\ UNCHANGED outsideEngine

\* the template the runs are about, and what its file holds
N_dashboard == <<"d","a","s","h">>
Src_old == <<"@","l","o","g","s">>
Src_new == <<"[","[","a","]","]">>
Src_bad == <<"@","x">>
K_a == <<"a">>
K_b == <<"b">>

\* every thread is between calls, no guard is held, nothing has happened
EngineInit(w, fs) ==
    /\ world = w
    /\ files = fs
    /\ template_cache = EmptyMap
    /\ rw = [readers |-> {}, writer |-> NoneV, poisoned |-> FALSE]
    /\ pc = [p \in Procs |-> "idle"]
    /\ call = [p \in Procs |-> [kind |-> "none"]]
    /\ template = [p \in Procs |-> NoneV]
    /\ work = [p \in Procs |-> NoneV]
    /\ result = [p \in Procs |-> NoneV]
    /\ ncalls = 0
    /\ nwrites = 0
    /\ hist = HistInit

\* the binder on its own is not running
BinderIdle ==
    /\ stage = "off"
    /\ blocks = <<>>
    /\ context = ContextOf(EmptyMap)
    /\ processed = NoneV

\* the parser on its own is not running
ParserIdle ==
    /\ source = <<>>
    /\ parsed = NoneV

\* no renderer is running on its own
UnitIdle ==
    /\ unit_renderer = HtmlRenderer_new
    /\ unit_source = <<>>
    /\ unit_block = NoneV
    /\ unit_output = NoneV

\* no generation cycle is running and nothing has been generated
GeneratorIdle ==
    /\ generation = [p \in Procs |-> [stage |-> "idle"]]
    /\ output_dir = [exists |-> FALSE, html |-> NoneV, text |-> NoneV]

\* ScheduledTask::new (scheduler.rs lines 27-34)
ScheduledTask_new == [last_run |-> NoneV, success_count |-> 0, failure_count |-> 0]

\* no task is scheduled
SchedulerIdle ==
    /\ scheduled_task = ScheduledTask_new
    /\ execution = [pc |-> "off"]
    /\ utc_now = 0
    /\ task_hist = [ok |-> 0, err |-> 0, last |-> NoneV]

StoreKinds == {"metrics", "traces", "logs"}

\* MetricStorage::new, TraceStorage::new, LogStorage::new (storage/mod.rs)
Storage_new == [k \in StoreKinds |-> <<>>]

\* the stores are empty and have not been used
StorageIdle ==
    /\ stores = Storage_new
    /\ store_query = NoneV
    /\ store_hist = [added |-> Storage_new, cleared |-> {}, last |-> "none", calls |-> -1]

Loops == 1..MaxLoops

\* a loop that has not been spawned
NoLoop == [pc |-> "none", task_count |-> 0, futures |-> <<>>, rounds |-> 0,
           ran |-> <<>>, stopped_in_round |-> FALSE]

\* what has happened on a Scheduler that has not been used
LoopHistInit ==
    [spawned |-> 0,            \* the loops spawned so far
     calls |-> 0,              \* the run and stop calls so far
     stopped |-> FALSE,        \* stop has returned Ok and run has not been called since
     ever_stopped |-> FALSE,   \* stop has returned Ok
     not_found |-> FALSE,      \* a future has produced "Task not found"
     failed |-> FALSE,         \* a task has returned Err
     last |-> NoneV]           \* Option<the last run or stop call>

\* Scheduler::new (scheduler.rs lines 94-100), before any call; max_loops is
\* the number of loops the callers let it spawn, 0 where no Scheduler is in use
Scheduler_new(max_loops) ==
    /\ running = FALSE
    /\ tasks = <<>>
    /\ tasks_lock = NoneV
    /\ loops = [l \in Loops |-> NoLoop]
    /\ api = [max_loops |-> max_loops, add_pending |-> FALSE, result |-> NoneV]
    /\ loop_hist = LoopHistInit

LoopIdle == Scheduler_new(0)

\* TemplateEngine::new (lines 60-68) with the directory holding one template;
\* two threads share the engine
Init ==
    /\ EngineInit([procs |-> Procs,
                   kinds |-> {"load_template", "render", "clear_cache"},
                   names |-> {N_dashboard},
                   contexts |-> {ContextOf(MapInsert(EmptyMap, K_a, <<"v">>))},
                   renderers |-> {HtmlRenderer_new},
                   clock |-> {0},
                   contents |-> {Src_old, Src_new, Src_bad},
                   maxCalls |-> MaxCalls,
                   maxWrites |-> MaxFileWrites, panics |-> FALSE],
                  [n \in {N_dashboard} |-> Some(Src_old)])
    /\ BinderIdle
    /\ ParserIdle
    /\ UnitIdle
    /\ GeneratorIdle
    /\ SchedulerIdle
    /\ StorageIdle
    /\ LoopIdle

Next ==
    \/ \E p \in Procs : CallLoadTemplate(p)
    \/ \E p \in Procs : CallRender(p)
    \/ \E p \in Procs : CallClearCache(p)
    \/ \E p \in Procs : AcquireRead(p)
    \/ \E p \in Procs : LookupRelease(p)
    \/ \E p \in Procs : Exists(p)
    \/ \E p \in Procs : FromFile(p)
    \/ \E p \in Procs : AcquireWrite(p)
    \/ \E p \in Procs : InsertRelease(p)
    \/ \E p \in Procs : ClearRelease(p)
    \/ \E p \in Procs : ProcessBlocks(p)
    \/ \E p \in Procs : RenderTemplate(p)
    \/ \E p \in Procs : Substitute(p)
    \/ WriteFile
    \/ RemoveFile

Spec == Init /\ [][Next]_vars

(***************************************************************************)
(* One render on a fresh engine, for every template source, variables map  *)
(* and renderer of a small catalogue: the pipeline load, bind, render,     *)
(* substitute of TemplateEngine::render, one thread, no other call.        *)
(***************************************************************************)
Src_var == <<"@","v","a","r","{","a","}">>
Src_para == <<"@","p","a","r","a","g","r","a","p","h","{","[","[","a","]","]","[","[","c","]","]","}">>
Src_cmd == <<"@","c","o","m","m","a","n","d","{","[","[","b","]","]","}">>
Src_mixed == <<"[","[","b","]","]"," ","@","v","a","r","{","a","}","@","l","o","g","s">>

RenderSources == {Src_old, Src_new, Src_var, Src_para, Src_cmd, Src_mixed}

\* variables maps: empty, one key, two keys, and a value that is itself a token
RenderVariables ==
    {EmptyMap,
     MapInsert(EmptyMap, K_a, <<"v">>),
     MapInsert(MapInsert(EmptyMap, K_a, <<"v">>), K_b, <<"w">>),
     MapInsert(MapInsert(EmptyMap, K_a, <<"[","[","b","]","]">>), K_b, <<"X">>)}

InitRender ==
    /\ \E src \in RenderSources, variables \in RenderVariables :
          EngineInit([procs |-> {"t1"},
                      kinds |-> {"render"},
                      names |-> {N_dashboard},
                      contexts |-> {ContextOf(variables)},
                      renderers |-> {HtmlRenderer_new, TextRenderer_new},
                      clock |-> {0, 59},
                      contents |-> {},
                      maxCalls |-> 1,
                      maxWrites |-> 0, panics |-> FALSE],
                     [n \in {N_dashboard} |-> Some(src)])
    /\ BinderIdle
    /\ ParserIdle
    /\ UnitIdle
    /\ GeneratorIdle
    /\ SchedulerIdle
    /\ StorageIdle
    /\ LoopIdle

NextRender ==
    \/ \E p \in Procs : CallRender(p)
    \/ \E p \in Procs : AcquireRead(p)
    \/ \E p \in Procs : LookupRelease(p)
    \/ \E p \in Procs : Exists(p)
    \/ \E p \in Procs : FromFile(p)
    \/ \E p \in Procs : AcquireWrite(p)
    \/ \E p \in Procs : InsertRelease(p)
    \/ \E p \in Procs : ProcessBlocks(p)
    \/ \E p \in Procs : RenderTemplate(p)
    \/ \E p \in Procs : Substitute(p)

SpecRender == InitRender /\ [][NextRender]_vars

\* a render of thread p has returned Ok
RenderedOk(p) ==
    /\ pc[p] = "done"
    /\ call[p].kind = "render"
    /\ IsSome(result[p])
    /\ result[p][1].ok

\* the token [[name]]
Token(name) == <<"[","[">> \o name \o <<"]","]">>
\* the directive text @var{name}
VarDirective(name) == <<"@","v","a","r","{">> \o name \o <<"}">>

\* C9: a render of the template "@var{a}" with a variable a has parsed the
\* directive to the one block Raw("@var{a}"), and the text it returns holds
\* the value of a in the place of the directive: no "@var{a}" is left in it.
C9_VarResolved ==
    \A p \in Procs :
        (/\ RenderedOk(p)
         /\ Unwrap(template[p]).content = Src_var
         /\ K_a \in DOMAIN call[p].context.variables)
        => /\ Unwrap(template[p]).blocks = <<Block_Raw(VarDirective(K_a))>>
           /\ Contains(result[p][1].val, call[p].context.variables[K_a])
           /\ ~Contains(result[p][1].val, VarDirective(K_a))

\* a token [[k]] with k a key of variables starts at index i of text
TokenAt(text, i, variables) == \E k \in DOMAIN variables : StartsWithAt(text, i, Token(k))

RECURSIVE ReplaceTokens(_, _)
\* text with every token [[k]], k a key of variables, replaced by variables[k]
\* in one pass from the left; what is inserted is not looked at again
ReplaceTokens(text, variables) ==
    IF ~\E i \in 1..Len(text) : TokenAt(text, i, variables) THEN text
    ELSE LET i == CHOOSE i \in 1..Len(text) :
                      TokenAt(text, i, variables)
                      /\ \A j \in 1..(i - 1) : ~TokenAt(text, j, variables)
             k == CHOOSE k \in DOMAIN variables : StartsWithAt(text, i, Token(k))
         IN  SubSeq(text, 1, i - 1) \o variables[k]
             \o ReplaceTokens(SubSeq(text, i + Len(Token(k)), Len(text)), variables)

\* C10: the text a render returns is the renderer's output with every token
\* [[name]] whose name is a key replaced by that key's value and every other
\* character, the tokens of other names included, left as it was.
C10_TokensReplaced ==
    \A p \in Procs :
        RenderedOk(p)
        => result[p][1].val = ReplaceTokens(Unwrap(work[p]), call[p].context.variables)

(***************************************************************************)
(* The binder on its own, as test_special_directives_processing            *)
(* (engine.rs lines 411-460) drives it: a tree of blocks and a context are *)
(* built, process_blocks is called on them, and it is called again on the  *)
(* tree it returned.                                                       *)
(***************************************************************************)
\* the blocks a tree is built from
Leaves ==
    {Block_Raw(S_metrics), Block_Raw(S_logs), Block_Raw(S_traces),
     Block_Raw(<<" ">> \o S_metrics \o <<" ">>),
     Block_Raw(VarDirective(K_a)),
     Block_Paragraph(<<"p">>)}

\* the blocks with children; a frame has a title or none
Wrappers == {"Frame", "TitledFrame", "Output", "Container"}

WrapperOf(w, children) ==
    CASE w = "Frame" -> Block_Frame(NoneV, children)
      [] w = "TitledFrame" -> Block_Frame(Some(<<"T">>), children)
      [] w = "Output" -> Block_Output(children)
      [] w = "Container" -> Block_Container(children)

\* the blocks nested in a block
ChildrenOf(block) ==
    IF block.kind \in {"Output", "Container"} THEN block.children
    ELSE IF block.kind = "Frame" THEN block.content
    ELSE <<>>

RECURSIVE NodeCount(_)
\* the blocks of a tree, at every depth
NodeCount(bs) ==
    IF Len(bs) = 0 THEN 0
    ELSE 1 + NodeCount(ChildrenOf(Head(bs))) + NodeCount(Tail(bs))

\* Metric::new(name, value).with_label(..): values are in tenths
MetricRecords ==
    {[name |-> <<"c","p","u">>, value |-> 785,
      labels |-> MapInsert(MapInsert(EmptyMap, K_unit, <<"%">>), K_trend, <<"+","2",".","3">>)],
     [name |-> <<"m","e","m">>, value |-> 30,
      labels |-> MapInsert(EmptyMap, K_trend, <<"u","p">>)],
     [name |-> <<"r","e","q">>, value |-> -5, labels |-> EmptyMap]}

\* LogEntry::new(message, level, source) at a timestamp
LogRecords ==
    {[message |-> <<"u","p">>, level |-> "Info", timestamp |-> 5, source |-> <<"a">>],
     [message |-> <<"n","o">>, level |-> "Error", timestamp |-> 42, source |-> <<"b">>]}

\* Trace::new(name, duration_ms).with_metadata(..)
TraceRecords ==
    {[name |-> <<"g","e","t">>, duration_ms |-> 15, start_time |-> 7,
      metadata |-> MapInsert(EmptyMap, K_status, <<"o","k">>)]}

\* the records of a context, of the three kinds together
RecordCount(ctx) == Len(ctx.metrics) + Len(ctx.logs) + Len(ctx.traces)

\* the engine is not running
EngineIdle ==
    EngineInit([procs |-> {}, kinds |-> {}, names |-> {N_dashboard}, contexts |-> {},
                renderers |-> {}, clock |-> {}, contents |-> {},
                maxCalls |-> 0, maxWrites |-> 0, panics |-> FALSE],
               [n \in {N_dashboard} |-> NoneV])

InitBind ==
    /\ EngineIdle
    /\ stage = "build"
    /\ blocks = <<>>
    /\ context = ContextOf(EmptyMap)
    /\ processed = NoneV
    /\ ParserIdle
    /\ UnitIdle
    /\ GeneratorIdle
    /\ SchedulerIdle
    /\ StorageIdle
    /\ LoopIdle

\* blocks.push(leaf)
PushBlock ==
    /\ stage = "build"
    /\ NodeCount(blocks) < MaxNodes
    /\ \E leaf \in Leaves : blocks' = Append(blocks, leaf)
    /\ UNCHANGED <<stage, context, processed>>
    /\ UNCHANGED outsideBinder

\* the last k blocks become the children of one Frame, Output or Container
WrapBlocks ==
    /\ stage = "build"
    /\ NodeCount(blocks) < MaxNodes
    /\ \E k \in 0..Len(blocks), w \in Wrappers :
          blocks' = Append(SubSeq(blocks, 1, Len(blocks) - k),
                           WrapperOf(w, SubSeq(blocks, Len(blocks) - k + 1, Len(blocks))))
    /\ UNCHANGED <<stage, context, processed>>
    /\ UNCHANGED outsideBinder

\* context.metrics.push(metric)
AddMetric ==
    /\ stage = "build"
    /\ RecordCount(context) < MaxRecords
    /\ \E m \in MetricRecords : context' = [context EXCEPT !.metrics = Append(@, m)]
    /\ UNCHANGED <<stage, blocks, processed>>
    /\ UNCHANGED outsideBinder

\* context.logs.push(log)
AddLog ==
    /\ stage = "build"
    /\ RecordCount(context) < MaxRecords
    /\ \E l \in LogRecords : context' = [context EXCEPT !.logs = Append(@, l)]
    /\ UNCHANGED <<stage, blocks, processed>>
    /\ UNCHANGED outsideBinder

\* context.traces.push(trace)
AddTrace ==
    /\ stage = "build"
    /\ RecordCount(context) < MaxRecords
    /\ \E t \in TraceRecords : context' = [context EXCEPT !.traces = Append(@, t)]
    /\ UNCHANGED <<stage, blocks, processed>>
    /\ UNCHANGED outsideBinder

\* engine.process_blocks(&blocks, &context): blocks is borrowed, not changed
Bind ==
    /\ stage = "build"
    /\ processed' = Some(process_blocks(blocks, context))
    /\ stage' = "bound"
    /\ UNCHANGED <<blocks, context>>
    /\ UNCHANGED outsideBinder

\* process_blocks on the tree it returned, with the same context or an empty one
Rebind ==
    /\ stage = "bound"
    /\ \E ctx \in {context, ContextOf(EmptyMap)} :
          /\ context' = ctx
          /\ blocks' = Unwrap(processed)
          /\ processed' = Some(process_blocks(Unwrap(processed), ctx))
    /\ stage' = "rebound"
    /\ UNCHANGED outsideBinder

NextBind ==
    \/ PushBlock
    \/ WrapBlocks
    \/ AddMetric
    \/ AddLog
    \/ AddTrace
    \/ Bind
    \/ Rebind

SpecBind == InitBind /\ [][NextBind]_vars

(***************************************************************************)
(* What the binder is to do, said without process_blocks.                  *)
(***************************************************************************)
Markers == {S_metrics, S_logs, S_traces}

\* a Raw block whose text is one of the three markers, character for character
ExactMarker(block) == block.kind = "Raw" /\ block.text \in Markers

\* a Raw block whose text is one of the three markers once the white space
\* around it is taken away
TrimmedMarker(block) == block.kind = "Raw" /\ Trim(block.text) \in Markers

RECURSIVE Flatten(_)
\* the blocks of a tree at every depth, parents before children
Flatten(bs) ==
    IF Len(bs) = 0 THEN <<>>
    ELSE <<Head(bs)>> \o Flatten(ChildrenOf(Head(bs))) \o Flatten(Tail(bs))

NoExactMarker(bs) == \A i \in 1..Len(Flatten(bs)) : ~ExactMarker(Flatten(bs)[i])
NoTrimmedMarker(bs) == \A i \in 1..Len(Flatten(bs)) : ~TrimmedMarker(Flatten(bs)[i])

\* block with cs for its children
WithChildren(block, cs) ==
    IF block.kind = "Frame" THEN [block EXCEPT !.content = cs]
    ELSE IF block.kind \in {"Output", "Container"} THEN [block EXCEPT !.children = cs]
    ELSE block

\* a block that has neither children nor the text of a marker
PassThrough(block) ==
    block.kind \notin {"Frame", "Output", "Container"} /\ ~TrimmedMarker(block)

\* C5 as the specification states it: a tree with no Raw block whose text is
\* exactly "@metrics", "@logs" or "@traces" at any depth is returned as it was
\* given.
C5_ExactUnchanged ==
    (stage = "bound" /\ NoExactMarker(blocks)) => Unwrap(processed) = blocks

\* C5: process_blocks returns a tree equal to its input, for every context,
\* whenever no Raw block of the input, at any depth, has a text that is
\* "@metrics", "@logs" or "@traces" once trimmed of the white space around it;
\* and binding again the tree that process_blocks returned gives that tree.
C5_BindUnchanged ==
    /\ (stage = "bound" /\ NoTrimmedMarker(blocks)) => Unwrap(processed) = blocks
    /\ stage = "rebound" => Unwrap(processed) = blocks

\* a bound tree with a titled frame, a Metric block and a @var marker has been
\* bound again
C5_Witness ==
    /\ stage = "rebound"
    /\ Unwrap(processed) = blocks
    /\ Len(blocks) = 1
    /\ blocks[1].kind = "Frame"
    /\ blocks[1].title = Some(<<"T">>)
    /\ \E i, j \in 1..Len(blocks[1].content) :
          /\ blocks[1].content[i].kind = "Metric"
          /\ blocks[1].content[j] = Block_Raw(VarDirective(K_a))

\* the comment block the binder puts before what it expands
CommentOf(label, n) ==
    Block_Raw(<<"<","!","-","-"," ">> \o label \o <<":"," ">> \o UsizeToString(n)
              \o <<" ","-","-",">">>)

\* the top-level block i is marker and every other top-level block passes through
OnlyMarkerAt(i, marker) ==
    /\ stage = "bound"
    /\ i \in 1..Len(blocks)
    /\ blocks[i] = Block_Raw(marker)
    /\ \A j \in 1..Len(blocks) : j # i => PassThrough(blocks[j])

\* the blocks before and after the n blocks put at index i are those of the input
AroundExpansion(i, n) ==
    LET out == Unwrap(processed)
    IN  /\ Len(out) = Len(blocks) - 1 + n
        /\ \A j \in 1..(i - 1) : out[j] = blocks[j]
        /\ \A j \in (i + 1)..Len(blocks) : out[j - 1 + n] = blocks[j]

\* C6: a Raw("@metrics") block bound against a context of n metric records is
\* replaced by exactly n+1 blocks: the comment, then one Metric block per
\* record in the order of context.metrics, with the record's name and value,
\* its "unit" label as unit and its "trend" label, when it is a number, as
\* trend; a missing label or one that is no number gives no trend.
C6_MetricsExpansion ==
    \A i \in 1..Len(blocks) :
        OnlyMarkerAt(i, S_metrics)
        => LET out == Unwrap(processed)
               n == Len(context.metrics)
           IN  /\ AroundExpansion(i, n + 1)
               /\ out[i] = CommentOf(<<"M","e","t","r","i","c","s">>, n)
               /\ \A k \in 1..n :
                     LET m == context.metrics[k]
                         b == out[i + k]
                     IN  /\ b.kind = "Metric"
                         /\ b.name = m.name
                         /\ b.value = F64ToString(m.value)
                         /\ b.unit = (IF K_unit \in DOMAIN m.labels
                                      THEN Some(m.labels[K_unit]) ELSE NoneV)
                         /\ b.trend = (IF K_trend \in DOMAIN m.labels
                                       THEN ParseF64(m.labels[K_trend]) ELSE NoneV)

\* @metrics between two other blocks, bound against the record with a unit and
\* a numeric trend followed by the record whose trend is "up"
C6_Witness ==
    /\ OnlyMarkerAt(2, S_metrics)
    /\ Len(blocks) = 3
    /\ Len(context.metrics) = 2
    /\ Len(Unwrap(processed)) = 5
    /\ Unwrap(processed)[3].name = <<"c","p","u">>
    /\ Unwrap(processed)[3].value = <<"7","8",".","5">>
    /\ Unwrap(processed)[3].unit = Some(<<"%">>)
    /\ Unwrap(processed)[3].trend = Some(23)
    /\ Unwrap(processed)[4].name = <<"m","e","m">>
    /\ Unwrap(processed)[4].unit = NoneV
    /\ Unwrap(processed)[4].trend = NoneV

\* C7: a Raw("@logs") block is replaced by exactly two blocks: the comment,
\* then the Paragraph "No logs available." when context.logs is empty and
\* otherwise one Table with the headers Timestamp, Level, Source, Message and
\* one row of four cells per log entry, in the order of context.logs.
C7_LogsExpansion ==
    \A i \in 1..Len(blocks) :
        OnlyMarkerAt(i, S_logs)
        => LET out == Unwrap(processed)
               n == Len(context.logs)
           IN  /\ AroundExpansion(i, 2)
               /\ out[i] = CommentOf(<<"L","o","g","s">>, n)
               /\ IF n = 0
                  THEN out[i + 1] = Block_Paragraph(
                           <<"N","o"," ","l","o","g","s"," ","a","v","a","i","l","a","b","l","e",".">>)
                  ELSE /\ out[i + 1].kind = "Table"
                       /\ out[i + 1].headers = <<<<"T","i","m","e","s","t","a","m","p">>,
                                                 <<"L","e","v","e","l">>,
                                                 <<"S","o","u","r","c","e">>,
                                                 <<"M","e","s","s","a","g","e">>>>
                       /\ Len(out[i + 1].rows) = n
                       /\ \A k \in 1..n :
                             /\ Len(out[i + 1].rows[k]) = 4
                             /\ out[i + 1].rows[k][1] = to_rfc3339(context.logs[k].timestamp)
                             /\ out[i + 1].rows[k][2] = LogLevel_as_str(context.logs[k].level)
                             /\ out[i + 1].rows[k][3] = context.logs[k].source
                             /\ out[i + 1].rows[k][4] = context.logs[k].message

\* @logs after another block, bound against two different log entries
C7_Witness ==
    /\ OnlyMarkerAt(2, S_logs)
    /\ Len(context.logs) = 2
    /\ context.logs[1] # context.logs[2]
    /\ Len(Unwrap(processed)) = Len(blocks) + 1
    /\ Unwrap(processed)[3].kind = "Table"
    /\ Len(Unwrap(processed)[3].rows) = 2
    /\ Unwrap(processed)[3].rows[1][4] = context.logs[1].message

\* the blocks the binder makes for ctx
Generated(block, ctx) ==
    \/ \E i \in 1..Len(BindMetrics(ctx)) : BindMetrics(ctx)[i] = block
    \/ \E i \in 1..Len(BindLogs(ctx)) : BindLogs(ctx)[i] = block
    \/ \E i \in 1..Len(BindTraces(ctx)) : BindTraces(ctx)[i] = block

RECURSIVE WithoutExact(_)
\* the tree without its exact markers, at every depth
WithoutExact(bs) ==
    IF Len(bs) = 0 THEN <<>>
    ELSE (IF ExactMarker(Head(bs)) THEN <<>>
          ELSE <<WithChildren(Head(bs), WithoutExact(ChildrenOf(Head(bs))))>>)
         \o WithoutExact(Tail(bs))

RECURSIVE WithoutTrimmed(_)
\* the tree without its markers, padded ones included, at every depth
WithoutTrimmed(bs) ==
    IF Len(bs) = 0 THEN <<>>
    ELSE (IF TrimmedMarker(Head(bs)) THEN <<>>
          ELSE <<WithChildren(Head(bs), WithoutTrimmed(ChildrenOf(Head(bs))))>>)
         \o WithoutTrimmed(Tail(bs))

RECURSIVE WithoutGenerated(_, _)
\* the tree without the blocks the binder makes for ctx, at every depth
WithoutGenerated(bs, ctx) ==
    IF Len(bs) = 0 THEN <<>>
    ELSE (IF Generated(Head(bs), ctx) THEN <<>>
          ELSE <<WithChildren(Head(bs), WithoutGenerated(ChildrenOf(Head(bs)), ctx))>>)
         \o WithoutGenerated(Tail(bs), ctx)

\* the step that binds the tree that was built
BindStep == stage = "build" /\ stage' = "bound"

\* C8 as the specification states it, a marker being a Raw block whose text is
\* exactly "@metrics", "@logs" or "@traces": the bound tree has no marker at
\* any depth and, the blocks the binder made set aside, is the input without
\* its markers (titles, the other Raw blocks and the order kept); the input is
\* not changed.
C8_ExactMarkersOnly ==
    [][BindStep
       => /\ blocks' = blocks
          /\ NoExactMarker(Unwrap(processed'))
          /\ WithoutGenerated(Unwrap(processed'), context) = WithoutExact(blocks)]_vars

\* C8: the bound tree has no Raw block whose trimmed text is "@metrics",
\* "@logs" or "@traces" at any depth of Frame, Output or Container; the blocks
\* the binder made set aside, it is the input without those blocks: a Frame has
\* its title, every other block is the one of the input, in the input's order;
\* the input is not changed.
C8_BoundTree ==
    [][BindStep
       => /\ blocks' = blocks
          /\ NoTrimmedMarker(Unwrap(processed'))
          /\ WithoutGenerated(Unwrap(processed'), context) = WithoutTrimmed(blocks)]_vars

\* a marker in an Output in a titled Frame has been bound against a full context
C8_Witness ==
    /\ stage = "bound"
    /\ RecordCount(context) = MaxRecords
    /\ Len(blocks) = 1
    /\ blocks[1].kind = "Frame"
    /\ blocks[1].title = Some(<<"T">>)
    /\ Len(blocks[1].content) = 1
    /\ blocks[1].content[1].kind = "Output"
    /\ Len(blocks[1].content[1].children) = 1
    /\ ExactMarker(blocks[1].content[1].children[1])
    /\ Unwrap(processed)[1].title = Some(<<"T">>)
    /\ Len(Unwrap(processed)[1].content[1].children) > 1

(***************************************************************************)
(* The cache under concurrent calls.                                       *)
(***************************************************************************)
\* the load_template of thread p, alone or inside a render, has returned Ok
Loaded(p) ==
    /\ pc[p] = "done"
    /\ IsLoad(call[p])
    /\ IsSome(template[p])

\* thread p has finished a call that went through load_template and that
\* started after a load of the name had succeeded, no clear_cache since
LaterLoad(p) ==
    /\ pc[p] = "done"
    /\ IsLoad(call[p])
    /\ IsSome(hist.afterFirst[p])

\* C1 as the specification states it: a load that starts after a load of the
\* name has succeeded, with no clear_cache in between, returns the content the
\* first load returned and does not read the file.
C1_FirstContentKept ==
    \A p \in Procs :
        LaterLoad(p)
        => /\ IsSome(template[p])
           /\ hist.fileReads[p] = 0
           /\ Unwrap(template[p]).content = Unwrap(hist.afterFirst[p])

\* C1: a load that starts after a load of the name has succeeded, with no
\* clear_cache in between, succeeds from the cache and does not read the file,
\* also when the file was changed or removed; it returns the content the first
\* load returned unless a load that had missed the cache before the first one
\* inserted has put its own template over the cached one since.
C1_CacheHit ==
    \A p \in Procs :
        LaterLoad(p)
        => /\ IsSome(template[p])
           /\ hist.hit[p]
           /\ hist.fileReads[p] = 0
           /\ (~hist.sawOverwrite[p]
               => Unwrap(template[p]).content = Unwrap(hist.afterFirst[p]))
           /\ (call[p].kind = "load_template"
               => result[p] = Some(Ok(Unwrap(template[p]))))

\* a later load has returned the first content although the file holds
\* something else by now
C1_Witness ==
    \E p \in Procs :
        /\ LaterLoad(p)
        /\ call[p].kind = "load_template"
        /\ ~hist.sawOverwrite[p]
        /\ nwrites > 0
        /\ files[call[p].name] # Some(Unwrap(hist.afterFirst[p]))
        /\ result[p][1].val.content = Unwrap(hist.afterFirst[p])

\* C2: a load that starts after the file was changed and a clear_cache has
\* then returned, the file not changed again and holding a template that
\* parses, returns the content of the file, whatever other loads were in
\* progress when clear_cache ran.
C2_FreshAfterClear ==
    \A p \in Procs :
        (/\ pc[p] = "done"
         /\ IsLoad(call[p])
         /\ IsSome(hist.fresh[p])
         /\ parse(Unwrap(hist.fresh[p])).ok)
        => /\ IsSome(template[p])
           /\ Unwrap(template[p]).content = Unwrap(hist.fresh[p])

\* C3: when two loads of one name have both missed the cache and inserted, and
\* no insert or clear has come after them, both have returned Ok with the
\* template they parsed, and the cache holds for the name the template of the
\* one that took the write lock last.
C3_LastWriteWins ==
    \A p, q \in Procs :
        (/\ p # q
         /\ pc[p] = "done" /\ pc[q] = "done"
         /\ IsLoad(call[p]) /\ IsLoad(call[q])
         /\ call[p].name = call[q].name
         /\ hist.cacheWrites[p] = 1 /\ hist.cacheWrites[q] = 1
         /\ hist.lastWriter = Some(q))
        => /\ Loaded(p) /\ Loaded(q)
           /\ hist.fileReads[p] = 1 /\ hist.fileReads[q] = 1
           /\ (call[p].kind = "load_template" => result[p] = Some(Ok(Unwrap(template[p]))))
           /\ (call[q].kind = "load_template" => result[q] = Some(Ok(Unwrap(template[q]))))
           /\ DOMAIN template_cache = {call[q].name}
           /\ template_cache[call[q].name] = Unwrap(template[q])

\* two loads that ran side by side, no clear_cache at all, have parsed different
\* contents of the file, and the cache holds the one of the second writer
C3_Witness ==
    \E p, q \in Procs :
        /\ p # q
        /\ pc[p] = "done" /\ pc[q] = "done"
        /\ call[p].kind = "load_template" /\ call[q].kind = "load_template"
        /\ hist.cacheWrites[p] = 1 /\ hist.cacheWrites[q] = 1
        /\ hist.lastWriter = Some(q)
        /\ hist.nclears = 0
        /\ Unwrap(template[p]).content # Unwrap(template[q]).content
        /\ template_cache[call[q].name].content = Unwrap(template[q]).content

\* C4: a thread holds the read guard only in the step that looks the name up
\* and the write guard only in the step that inserts or clears; in the steps
\* that check or read the file, parse, bind, render or substitute it holds no
\* guard; and a call inserts into the cache at most once.
C4_LockScope ==
    /\ \A p \in Procs : p \in rw.readers => pc[p] = "lookup"
    /\ \A p \in Procs : rw.writer = Some(p) => pc[p] \in {"insert", "clear"}
    /\ \A p \in Procs :
          pc[p] \in {"exists", "from_file", "process_blocks", "render_template", "substitute"}
          => p \notin rw.readers /\ rw.writer # Some(p)
    /\ IsSome(rw.writer) => rw.readers = {}
    /\ \A p \in Procs : hist.cacheWrites[p] <= 1

\* a render that has inserted once substitutes while another call holds the
\* write guard
C4_Witness ==
    \E p, q \in Procs :
        /\ p # q
        /\ call[p].kind = "render"
        /\ pc[p] = "substitute"
        /\ hist.cacheWrites[p] = 1
        /\ rw.writer = Some(q)

(***************************************************************************)
(* The parser on its own.  A text is typed token by token and handed to    *)
(* Template::from_string; source is the sequence of the tokens typed.      *)
(***************************************************************************)
MaxTokens == 5

D_var == <<"v","a","r">>
D_paragraph == <<"p","a","r","a","g","r","a","p","h">>
D_frame == <<"f","r","a","m","e">>

\* the pieces a text is typed from: directive names after '@' (z is the name
\* of no directive), braces, a backslash, a letter and a whole brace group
Tokens ==
    { S_metrics, <<"@">> \o D_var, <<"@">> \o D_paragraph, <<"@">> \o D_frame,
      <<"@","z">>, <<"x">>, <<"{">>, <<"}">>, <<"\\">>, <<"{","1","}">>,
      <<E_acute>> }

SourceText == Concat(source)

InitParse ==
    /\ EngineIdle
    /\ BinderIdle
    /\ source = <<>>
    /\ parsed = NoneV
    /\ UnitIdle
    /\ GeneratorIdle
    /\ SchedulerIdle
    /\ StorageIdle
    /\ LoopIdle

\* one more token of the template text
TypeToken ==
    /\ parsed = NoneV
    /\ Len(source) < MaxTokens
    /\ \E t \in Tokens : source' = Append(source, t)
    /\ UNCHANGED parsed
    /\ UNCHANGED outsideParser

\* Template::from_string("test", text)
ParseSource ==
    /\ parsed = NoneV
    /\ parsed' = Some(Template_from_string(<<"t","e","s","t">>, SourceText))
    /\ UNCHANGED source
    /\ UNCHANGED outsideParser

NextParse ==
    \/ TypeToken
    \/ ParseSource

SpecParse == InitParse /\ [][NextParse]_vars

\* the names parse_block and parse_directive know
KnownDirectives ==
    { Tail(S_metrics), Tail(S_logs), Tail(S_traces), D_var,
      <<"h","e","a","d","i","n","g">>, D_paragraph, <<"c","o","m","m","a","n","d">>,
      <<"o","u","t","p","u","t">>, D_frame, <<"m","e","t","r","i","c">>,
      <<"l","o","g">>, <<"t","a","b","l","e">>, <<"t","r","a","c","e">>,
      <<"r","a","w">> }

\* the identifier that follows the '@' at index i of text
IdentifierAfter(text, i) == SubSeq(text, i + 1, ScanIdentifier(text, i + 1) - 1)

\* some '@' of text is followed by an identifier that is no directive name
HasUnknownDirective(text) ==
    \E i \in 1..Len(text) :
        /\ text[i] = "@"
        /\ IdentifierAfter(text, i) \notin KnownDirectives

\* C11: whenever an '@' of the text is followed by an identifier that is not
\* exactly one of the known directive names, parse returns an error and no
\* blocks; @metricsx is such a text.
C11_UnknownDirectiveFails ==
    (IsSome(parsed) /\ HasUnknownDirective(SourceText)) => ~Unwrap(parsed).ok

\* the number of '{' of s less the number of '}'
BraceDepth(s) ==
    Cardinality({i \in 1..Len(s) : s[i] = "{"}) - Cardinality({i \in 1..Len(s) : s[i] = "}"})

\* every '}' of s closes a '{' of s, and every '{' is closed
Balanced(s) ==
    /\ BraceDepth(s) = 0
    /\ \A k \in 1..Len(s) : BraceDepth(SubSeq(s, 1, k)) >= 0

\* a title: no '}' in it and no backslash at its end
PlainTitle(s) ==
    /\ \A i \in 1..Len(s) : s[i] # "}"
    /\ s # <<>> => s[Len(s)] # "\\"

FramePrefix == <<"@">> \o D_frame \o <<"{">>

\* the outcome C12 describes: one Frame with the title and the parsed body
FrameOutcome(r, title, body) ==
    IF parse(body).ok
    THEN r.ok /\ r.val.blocks = <<Block_Frame(title, parse(body).blocks)>>
    ELSE ~r.ok

\* text is @frame{T}{B}; the '}' at index i ends T
IsTitledFrame(text, i) ==
    /\ StartsWithAt(text, 1, FramePrefix)
    /\ i + 2 <= Len(text)
    /\ text[i] = "}" /\ text[i + 1] = "{" /\ text[Len(text)] = "}"
    /\ PlainTitle(SubSeq(text, 8, i - 1))
    /\ Balanced(SubSeq(text, i + 2, Len(text) - 1))

\* text is @frame{B} and nothing else
IsUntitledFrame(text) ==
    /\ StartsWithAt(text, 1, FramePrefix)
    /\ text[Len(text)] = "}"
    /\ Balanced(SubSeq(text, 8, Len(text) - 1))

\* the first half of C12 alone: @frame{T}{B} parses to one Frame with title T
\* and content parse(B)
FrameWithTitle ==
    IsSome(parsed) =>
        \A i \in 8..Len(SourceText) :
            IsTitledFrame(SourceText, i)
            => FrameOutcome(Unwrap(parsed), Some(SubSeq(SourceText, 8, i - 1)),
                            SubSeq(SourceText, i + 2, Len(SourceText) - 1))

\* C12: @frame{T}{B} parses to one Frame with title T and content parse(B),
\* and @frame{B}, a single brace group with nothing after it, parses to one
\* Frame with no title and content parse(B).
C12_FrameParsed ==
    /\ FrameWithTitle
    /\ (IsSome(parsed) /\ IsUntitledFrame(SourceText))
       => FrameOutcome(Unwrap(parsed), NoneV, SubSeq(SourceText, 8, Len(SourceText) - 1))

\* the index of the first '}' of s that no backslash precedes, or 0
FirstUnescapedClose(s) ==
    LET closes == {k \in 1..Len(s) : s[k] = "}" /\ (k = 1 \/ s[k - 1] # "\\")}
    IN  IF closes = {} THEN 0 ELSE CHOOSE k \in closes : \A j \in closes : k <= j

\* the directives with one brace argument the texts are typed from, and the
\* block each makes of its argument
OneArgDirectives == {D_paragraph, D_var}

OneArgBlock(d, body) ==
    IF d = D_var THEN Block_Raw(<<"@">> \o D_var \o <<"{">> \o body \o <<"}">>)
    ELSE Block_Paragraph(body)

\* the outcome C13 describes for a text that opens with @d{ and goes on with
\* rest: the argument ends at index k of rest, and the parse goes on behind it
ArgumentOutcome(r, d, rest, k) ==
    IF k = 0 THEN ~r.ok
    ELSE IF parse(SubSeq(rest, k + 1, Len(rest))).ok
    THEN /\ r.ok
         /\ r.val.blocks = <<OneArgBlock(d, SubSeq(rest, 1, k - 1))>>
                              \o parse(SubSeq(rest, k + 1, Len(rest))).blocks
    ELSE ~r.ok

RestAfter(text, d) == SubSeq(text, Len(d) + 3, Len(text))

\* the call did not return: the parser panicked on a slice that ends inside
\* a character of several bytes
ParserPanicked(r) == ~r.ok /\ r.err.variant = "panic"

C13_Unclosed ==
    /\ IsSome(parsed)
    /\ SourceText = <<"@">> \o D_var \o <<"{", "x", "\\", "}">>
    /\ ~Unwrap(parsed).ok

(***************************************************************************)
(* A renderer on its own.  One block is made, a heading by parsing its     *)
(* directive, a paragraph word by word, a table cell by cell, and handed   *)
(* to an HtmlRenderer or to a TextRenderer of some width.                  *)
(***************************************************************************)
MaxLevel == 12
MaxWords == 4
MaxTableItems == 5

HeadingTexts == { <<"T">>, <<"a", "<", "b">> }

Words == { <<"a">>, <<"b", "b">>, [i \in 1..6 |-> "c"], [i \in 1..13 |-> "d"] }

Cells == { <<"x">>, <<"y", "y", "y">> }

\* TextRenderer::new().with_width(w).with_ascii_only(a)
UnitWidths == {3, 10, 12, DEFAULT_TERMINAL_WIDTH}

\* no title, a short one, a long one
FrameTitles == {NoneV, Some(<<"t">>), Some([i \in 1..7 |-> "T"])}

UnitRenderers ==
    {HtmlRenderer_new}
        \cup {[TextRenderer_new EXCEPT !.terminal_width = w, !.ascii_only = a] :
                 w \in UnitWidths, a \in BOOLEAN}

\* @heading{n}{text} as it is written
HeadingSource(n, text) ==
    <<"@", "h", "e", "a", "d", "i", "n", "g", "{">> \o UsizeToString(n)
        \o <<"}", "{">> \o text \o <<"}">>

\* the only block of a parse result, if the parse gave exactly one block
OnlyBlock(r) == IF r.ok /\ Len(r.blocks) = 1 THEN Some(r.blocks[1]) ELSE NoneV

\* the headers, rows and cells of a table
TableItems(b) == Len(b.headers) + Len(b.rows) + Len(Concat(b.rows))

InitUnit ==
    /\ EngineIdle
    /\ BinderIdle
    /\ ParserIdle
    /\ GeneratorIdle
    /\ SchedulerIdle
    /\ StorageIdle
    /\ LoopIdle
    /\ unit_renderer \in UnitRenderers
    /\ unit_source = <<>>
    /\ unit_block = NoneV
    /\ unit_output = NoneV

Untouched == unit_source = <<>> /\ unit_output = NoneV

\* Template::from_string on @heading{n}{text}
ParseHeading ==
    /\ Untouched
    /\ unit_block = NoneV
    /\ \E n \in 0..MaxLevel, text \in HeadingTexts :
          /\ unit_source' = HeadingSource(n, text)
          /\ unit_block' = OnlyBlock(parse(HeadingSource(n, text)))
    /\ UNCHANGED <<unit_renderer, unit_output>>
    /\ UNCHANGED outsideUnit

\* one more word of a paragraph
AddWord ==
    /\ Untouched
    /\ \E w \in Words :
          \/ /\ unit_block = NoneV
             /\ unit_block' = Some(Block_Paragraph(w))
          \/ /\ IsSome(unit_block)
             /\ Unwrap(unit_block).kind = "Paragraph"
             /\ Len(SplitWhitespace(Unwrap(unit_block).text)) < MaxWords
             /\ unit_block' = Some(Block_Paragraph(Unwrap(unit_block).text \o <<" ">> \o w))
    /\ UNCHANGED <<unit_renderer, unit_source, unit_output>>
    /\ UNCHANGED outsideUnit

CanGrowTable ==
    /\ Untouched
    /\ \/ unit_block = NoneV
       \/ /\ IsSome(unit_block)
          /\ Unwrap(unit_block).kind = "Table"
          /\ TableItems(Unwrap(unit_block)) < MaxTableItems

TableSoFar == IF unit_block = NoneV THEN Block_Table(<<>>, <<>>) ELSE Unwrap(unit_block)

\* headers.push(cell)
AddHeader ==
    /\ CanGrowTable
    /\ \E c \in Cells :
          unit_block' = Some(Block_Table(Append(TableSoFar.headers, c), TableSoFar.rows))
    /\ UNCHANGED <<unit_renderer, unit_source, unit_output>>
    /\ UNCHANGED outsideUnit

\* rows.push(vec![])
AddRow ==
    /\ CanGrowTable
    /\ unit_block' = Some(Block_Table(TableSoFar.headers, Append(TableSoFar.rows, <<>>)))
    /\ UNCHANGED <<unit_renderer, unit_source, unit_output>>
    /\ UNCHANGED outsideUnit

\* rows.last_mut().push(cell)
AddCell ==
    /\ CanGrowTable
    /\ TableSoFar.rows # <<>>
    /\ \E c \in Cells :
          unit_block' = Some(Block_Table(TableSoFar.headers,
                                 [TableSoFar.rows EXCEPT ![Len(TableSoFar.rows)] = Append(@, c)]))
    /\ UNCHANGED <<unit_renderer, unit_source, unit_output>>
    /\ UNCHANGED outsideUnit

\* @frame or @frame{title} around the block built so far, or around nothing
WrapInFrame ==
    /\ Untouched
    /\ unit_block # NoneV => Unwrap(unit_block).kind \in {"Paragraph", "Table"}
    /\ \E title \in FrameTitles :
          unit_block' = Some(Block_Frame(title, unit_block))
    /\ UNCHANGED <<unit_renderer, unit_source, unit_output>>
    /\ UNCHANGED outsideUnit

\* renderer.render_block(&block); a table goes to render_table and the frame
\* of a text renderer to render_frame, which may panic; the build has
\* overflow checks or has none
RenderUnit ==
    /\ unit_output = NoneV
    /\ IsSome(unit_block)
    /\ \E overflow_checks \in BOOLEAN :
          unit_output' =
             Some(IF Unwrap(unit_block).kind = "Table"
                  THEN render_table(unit_renderer, Unwrap(unit_block).headers,
                                    Unwrap(unit_block).rows)
                  ELSE IF Unwrap(unit_block).kind = "Frame" /\ unit_renderer.kind = "text"
                  THEN TextRenderer_render_frame(
                           unit_renderer, Unwrap(unit_block).title,
                           render_blocks(unit_renderer, Unwrap(unit_block).content),
                           overflow_checks)
                  ELSE [ok |-> TRUE, val |-> render_block(unit_renderer, Unwrap(unit_block))])
    /\ UNCHANGED <<unit_renderer, unit_source, unit_block>>
    /\ UNCHANGED outsideUnit

NextUnit ==
    \/ ParseHeading
    \/ AddWord
    \/ AddHeader
    \/ AddRow
    \/ AddCell
    \/ WrapInFrame
    \/ RenderUnit

SpecUnit == InitUnit /\ [][NextUnit]_vars

\* the unit rendered is of this kind
Rendered(kind) ==
    /\ IsSome(unit_output)
    /\ Unwrap(unit_block).kind = kind

\* the level C14 says a heading of level n is rendered at
RenderedLevel(n) == IF n < 1 THEN 1 ELSE IF n > 6 THEN 6 ELSE n

\* the HTML of a heading at a level from 1 to 6
HtmlHeadingAt(level, text) ==
    <<"<h", DigitChar(level), " class=\"terminal-heading terminal-heading-",
      DigitChar(level), "\">">> \o escape_html(text) \o <<"</h", DigitChar(level), ">">>

\* the text of a heading at a level from 1 to 6: '=', '-', '~' under the
\* levels 1, 2, 3, nothing under the others
TextHeadingAt(level, text) ==
    text \o <<"\n">>
        \o (IF level <= 3
            THEN [i \in 1..Len(text) |-> <<"=", "-", "~">>[level]] \o <<"\n", "\n">>
            ELSE <<"\n">>)

\* C14: @heading{n}{text} parses to a Heading whose level is n itself, also
\* for 0 and for levels above 6, and both renderers render it at level
\* min(max(n, 1), 6); the text renderer underlines levels 1, 2, 3 with '=',
\* '-', '~' and levels 4 to 6 with nothing.  (The levels are those a usize
\* holds; a longer digit string is an argument that does not parse.)
C14_HeadingLevel ==
    \A n \in 0..(MaxLevel + 1), text \in HeadingTexts :
        unit_source = HeadingSource(n, text)
        => /\ unit_block = Some(Block_Heading(n, text))
           /\ IsSome(unit_output)
              => /\ Unwrap(unit_output).ok
                 /\ Unwrap(unit_output).val =
                        IF unit_renderer.kind = "html"
                        THEN HtmlHeadingAt(RenderedLevel(n), text)
                        ELSE TextHeadingAt(RenderedLevel(n), text)

\* a heading written with a level above 6 has been parsed and then rendered
\* by the text renderer, which gave it no underline
C14_Witness ==
    /\ Rendered("Heading")
    /\ Unwrap(unit_block).level > 6
    /\ unit_renderer.kind = "text"
    /\ unit_source = HeadingSource(Unwrap(unit_block).level, <<"T">>)
    /\ Unwrap(unit_output).val = <<"T", "\n", "\n">>

\* str::lines of a rendered text: the pieces between the line feeds
LinesOf(text) == Split(text, "\n")

\* C15: when the text of a paragraph is longer than the terminal_width of the
\* TextRenderer, no line of what render_paragraph returns is longer than
\* terminal_width.
C15_NoLongLine ==
    (/\ Rendered("Paragraph")
     /\ unit_renderer.kind = "text"
     /\ Len(Unwrap(unit_block).text) > unit_renderer.terminal_width)
    => \A i \in 1..Len(LinesOf(Unwrap(unit_output).val)) :
           Len(LinesOf(Unwrap(unit_output).val)[i]) <= unit_renderer.terminal_width

\* the greatest number of a non-empty finite set of numbers
SetMax(S) == CHOOSE m \in S : \A n \in S : n <= m

\* the lines of cells of a table: the header line, when there is one, then
\* the rows
CellLines(b) == (IF b.headers # <<>> THEN <<b.headers>> ELSE <<>>) \o b.rows

\* the number of columns, and the greatest width of a cell at index i over
\* the header line and all rows
ColumnCount(b) == SetMax({0} \cup {Len(b.headers)} \cup {Len(b.rows[r]) : r \in 1..Len(b.rows)})

ColumnWidth(b, i) ==
    SetMax({0} \cup {Len(CellLines(b)[l][i]) :
                        l \in {k \in 1..Len(CellLines(b)) : i <= Len(CellLines(b)[k])}})

\* a border of the text table: for every column its width and two more
\* horizontal glyphs, one glyph between two columns and one at each end
BorderOf(b, bc) ==
    <<bc.top_left>>
        \o Concat([i \in 1..ColumnCount(b) |->
                      [k \in 1..(ColumnWidth(b, i) + 2) |-> bc.horizontal]
                          \o (IF i < ColumnCount(b) THEN <<bc.tee_down>> ELSE <<>>)])
        \o <<bc.top_right>>

\* a line of cells of the text table: every cell of the line, each filled
\* with blanks to the width of its column
CellsOf(b, bc, cells) ==
    <<bc.vertical>>
        \o Concat([i \in 1..Len(cells) |->
                      <<" ">> \o cells[i]
                          \o [k \in 1..(ColumnWidth(b, i) - Len(cells[i])) |-> " "]
                          \o <<" ", bc.vertical>>])

\* the text table has a line of cells at every second line after the top border
TextTableAsClaimed(b, bc, lines) ==
    /\ lines[1] = BorderOf(b, bc)
    /\ \A l \in 1..Len(CellLines(b)) : lines[2 * l] = CellsOf(b, bc, CellLines(b)[l])

\* the number of times the one-element piece of markup e occurs in text
Occurrences(text, e) == Cardinality({i \in 1..Len(text) : text[i] = e})

\* the HTML table holds one th for every header and one td for every cell
HtmlTableAsClaimed(b, text) ==
    /\ Occurrences(text, "<th>") = Len(b.headers)
    /\ Occurrences(text, "<td>") = Len(Concat(b.rows))
    /\ \A i \in 1..Len(b.headers) :
           Contains(text, <<"<th>">> \o escape_html(b.headers[i]) \o <<"</th>">>)
    /\ \A r \in 1..Len(b.rows) : \A i \in 1..Len(b.rows[r]) :
           Contains(text, <<"<td>">> \o escape_html(b.rows[r][i]) \o <<"</td>">>)

\* C16: render_table of both renderers returns a result, without a panic, for
\* every table: rows shorter or longer than the header line, no headers, no
\* rows, rows without cells; every cell is in the result, and in the text
\* table the width of column i is the greatest width of a cell at index i over
\* the header line and all rows.
C16_TableRendered ==
    Rendered("Table")
    => /\ Unwrap(unit_output).ok
       /\ unit_renderer.kind = "html"
          => HtmlTableAsClaimed(Unwrap(unit_block), Unwrap(unit_output).val)
       /\ (unit_renderer.kind = "text" /\ CellLines(Unwrap(unit_block)) # <<>>)
          => TextTableAsClaimed(Unwrap(unit_block), box_chars(unit_renderer),
                                LinesOf(Unwrap(unit_output).val))

\* the text renderer has rendered a table with a header line, a row with more
\* cells than headers, one of them wider than its header, and a row without
\* cells
C16_Witness ==
    /\ Rendered("Table")
    /\ unit_renderer.kind = "text"
    /\ Unwrap(unit_output).ok
    /\ Len(Unwrap(unit_block).headers) = 1
    /\ Len(Unwrap(unit_block).rows) = 2
    /\ Unwrap(unit_block).rows[1] = <<>>
    /\ Len(Unwrap(unit_block).rows[2]) = 2
    /\ Len(Unwrap(unit_block).rows[2][1]) > Len(Unwrap(unit_block).headers[1])

(***************************************************************************)
(* Loads that fail.  Two threads load two templates; the file of the       *)
(* second is missing at first, and the environment may put a text that     *)
(* does not parse into a file, or remove a file.                           *)
(***************************************************************************)
N_missing == <<"m","i","s","s">>

InitLoad ==
    /\ EngineInit([procs |-> Procs,
                   kinds |-> {"load_template"},
                   names |-> {N_dashboard, N_missing},
                   contexts |-> {},
                   renderers |-> {},
                   clock |-> {},
                   contents |-> {Src_bad},
                   maxCalls |-> MaxCalls,
                   maxWrites |-> MaxFileWrites, panics |-> FALSE],
                  [n \in {N_dashboard, N_missing} |->
                      IF n = N_dashboard THEN Some(Src_old) ELSE NoneV])
    /\ BinderIdle
    /\ ParserIdle
    /\ UnitIdle
    /\ GeneratorIdle
    /\ SchedulerIdle
    /\ StorageIdle
    /\ LoopIdle

NextLoad ==
    \/ \E p \in Procs : CallLoadTemplate(p)
    \/ \E p \in Procs : AcquireRead(p)
    \/ \E p \in Procs : LookupRelease(p)
    \/ \E p \in Procs : Exists(p)
    \/ \E p \in Procs : FromFile(p)
    \/ \E p \in Procs : AcquireWrite(p)
    \/ \E p \in Procs : InsertRelease(p)
    \/ WriteFile
    \/ RemoveFile

SpecLoad == InitLoad /\ [][NextLoad]_vars

\* this step is the return of an error by the load_template of thread p
FailedLoadStep(p) ==
    /\ pc[p] # "done"
    /\ pc'[p] = "done"
    /\ IsLoad(call[p])
    /\ ~Unwrap(result'[p]).ok

\* C18: a load_template that returns an error, the file being missing,
\* unreadable or not parseable, had missed the cache, has inserted nothing
\* and leaves every entry of the cache as it was, so that the name is still
\* not cached by it and a later load goes to the file again.
C18_FailedLoadKeepsCache ==
    [][\A p \in Procs :
          FailedLoadStep(p)
          => /\ template_cache' = template_cache
             /\ hist'.cacheWrites[p] = 0
             /\ ~hist'.hit[p]]_vars

\* a load of the missing template has failed while the other template is
\* cached, and the cache holds that entry only
C18_Witness ==
    \E p \in Procs :
        /\ pc[p] = "done"
        /\ call[p].name = N_missing
        /\ ~Unwrap(result[p]).ok
        /\ DOMAIN template_cache = {N_dashboard}

\* a load has failed on a file that does not parse
C18_ParseFailure ==
    \E p \in Procs :
        /\ pc[p] = "done"
        /\ hist.fileReads[p] = 1
        /\ ~Unwrap(result[p]).ok

(***************************************************************************)
(* A poisoned lock.  Two threads load a template and clear the cache, and  *)
(* the one that holds the write guard may panic.                           *)
(***************************************************************************)
InitPoison ==
    /\ EngineInit([procs |-> Procs,
                   kinds |-> {"load_template", "clear_cache"},
                   names |-> {N_dashboard},
                   contexts |-> {},
                   renderers |-> {},
                   clock |-> {},
                   contents |-> {Src_bad},
                   maxCalls |-> MaxCalls,
                   maxWrites |-> MaxFileWrites, panics |-> TRUE],
                  [n \in {N_dashboard} |-> Some(Src_old)])
    /\ BinderIdle
    /\ ParserIdle
    /\ UnitIdle
    /\ GeneratorIdle
    /\ SchedulerIdle
    /\ StorageIdle
    /\ LoopIdle

NextPoison ==
    \/ \E p \in Procs : CallLoadTemplate(p)
    \/ \E p \in Procs : CallClearCache(p)
    \/ \E p \in Procs : AcquireRead(p)
    \/ \E p \in Procs : LookupRelease(p)
    \/ \E p \in Procs : Exists(p)
    \/ \E p \in Procs : FromFile(p)
    \/ \E p \in Procs : AcquireWrite(p)
    \/ \E p \in Procs : InsertRelease(p)
    \/ \E p \in Procs : ClearRelease(p)
    \/ \E p \in Procs : WriterPanics(p)
    \/ WriteFile

SpecPoison == InitPoison /\ [][NextPoison]_vars

\* the call of thread p has returned the error of a lock that could not be
\* acquired
LockFailure(p) ==
    /\ pc[p] = "done"
    /\ IsSome(result[p])
    /\ ~Unwrap(result[p]).ok
    /\ Unwrap(result[p]).err \in {LockError("read"), LockError("write")}

\* the class of the errors of the parser: the variant of the error that
\* from_string returns for a text it cannot parse
ParseErrorClass == Template_from_string(N_dashboard, Src_bad).err.variant

\* C19: the error that load_template or clear_cache returns when the lock of
\* the cache cannot be acquired is of another class than the errors of the
\* parser.
C19_LockErrorClass ==
    \A p \in Procs :
        LockFailure(p) => Unwrap(result[p]).err.variant # ParseErrorClass

\* a lock failure has been returned to a caller
C19_LockFailureReturned == \E p \in Procs : LockFailure(p)

(***************************************************************************)
(* The generation cycle (tasks/home_generator.rs).  Task::execute is       *)
(* generate_site: generate_dashboard renders the dashboard template with   *)
(* the html renderer and then with the text renderer, each through         *)
(* TemplateEngine::render, and generate_site creates the output directory  *)
(* and calls write_output, which writes index.html and then index.txt.     *)
(* The stages of a cycle:                                                  *)
(*   html, text       the engine is rendering (the steps of render above)  *)
(*   create_dir       generate_dashboard has returned Ok                   *)
(*   write_html, write_text    inside write_output                         *)
(*   returned         execute has returned                                 *)
(* The storages only fill the context, and a storage that fails gives an   *)
(* empty list (lines 61-83): the context is drawn from world.contexts.     *)
(* The file system does not fail.                                          *)
(***************************************************************************)
\* generate_dashboard up to its first render (lines 57-91)
CallExecute(p) ==
    /\ CanCall(p)
    /\ "execute" \in world.kinds
    /\ \E name \in world.names, ctx \in world.contexts :
          /\ StartCall(p, [kind |-> "render", name |-> name, context |-> ctx,
                           renderer |-> HtmlRenderer_new], "read_lock")
          /\ generation' = [generation EXCEPT ![p] =
                               [stage |-> "html",
                                html_content |-> NoneV,  \* Option<Result> of the html render
                                text_content |-> NoneV,  \* Option<Result> of the text render
                                written |-> {},          \* what this cycle has created or written
                                returned |-> NoneV]]     \* Option<what execute returned>
    /\ UNCHANGED output_dir
    /\ UNCHANGED outsideGenerator

\* the ? on the html render (line 91): the error returns through
\* generate_dashboard, generate_site and execute; Ok goes on with the text
\* render (lines 92-94)
HtmlRendered(p) ==
    /\ generation[p].stage = "html"
    /\ pc[p] = "done"
    /\ LET r == Unwrap(result[p])
       IN  IF r.ok
           THEN /\ StartCall(p, [call[p] EXCEPT !.renderer = TextRenderer_new], "read_lock")
                /\ generation' = [generation EXCEPT ![p].stage = "text",
                                                    ![p].html_content = Some(r)]
           ELSE /\ generation' = [generation EXCEPT ![p].stage = "returned",
                                                    ![p].html_content = Some(r),
                                                    ![p].returned = Some(r)]
                /\ UNCHANGED engineVars
    /\ UNCHANGED output_dir
    /\ UNCHANGED outsideGenerator

\* a text render whose error is dropped: the cycle goes on with an empty text
TextRendered_ignoresError(p) ==
    /\ generation[p].stage = "text"
    /\ pc[p] = "done"
    /\ generation' = [generation EXCEPT ![p].stage = "create_dir",
                                        ![p].text_content = result[p]]
    /\ UNCHANGED engineVars
    /\ UNCHANGED output_dir
    /\ UNCHANGED outsideGenerator

\* the ? on the text render (line 94) and Ok((html_content, text_content))
TextRendered(p) ==
    /\ generation[p].stage = "text"
    /\ pc[p] = "done"
    /\ LET r == Unwrap(result[p])
       IN  generation' = [generation EXCEPT
                              ![p].stage = IF r.ok THEN "create_dir" ELSE "returned",
                              ![p].text_content = Some(r),
                              ![p].returned = IF r.ok THEN NoneV ELSE Some(r)]
    /\ UNCHANGED engineVars
    /\ UNCHANGED output_dir
    /\ UNCHANGED outsideGenerator

\* generate_site lines 41-44: create_dir_all when the directory is missing
\* (write_output repeats the test, lines 264-268, and finds the directory)
CreateDir(p) ==
    /\ generation[p].stage = "create_dir"
    /\ output_dir' = [output_dir EXCEPT !.exists = TRUE]
    /\ generation' = [generation EXCEPT
                          ![p].stage = "write_html",
                          ![p].written = IF output_dir.exists THEN @ ELSE @ \cup {"dir"}]
    /\ UNCHANGED engineVars
    /\ UNCHANGED outsideGenerator

\* the text of a render, empty where there is none
ContentOf(r) == IF r.ok THEN r.val ELSE <<>>

\* write_output: fs::write(&html_path, html_content) (lines 273-275)
WriteHtml(p) ==
    /\ generation[p].stage = "write_html"
    /\ output_dir' = [output_dir EXCEPT
                          !.html = Some(ContentOf(Unwrap(generation[p].html_content)))]
    /\ generation' = [generation EXCEPT ![p].stage = "write_text",
                                        ![p].written = @ \cup {"html"}]
    /\ UNCHANGED engineVars
    /\ UNCHANGED outsideGenerator

\* write_output: fs::write(&text_path, text_content) and Ok(()) (lines
\* 277-281), which generate_site and execute return (lines 53-54, 137)
WriteText(p) ==
    /\ generation[p].stage = "write_text"
    /\ output_dir' = [output_dir EXCEPT
                          !.text = Some(ContentOf(Unwrap(generation[p].text_content)))]
    /\ generation' = [generation EXCEPT ![p].stage = "returned",
                                        ![p].written = @ \cup {"text"},
                                        ![p].returned = Some(Ok(<<>>))]
    /\ UNCHANGED engineVars
    /\ UNCHANGED outsideGenerator

\* two threads share the engine: each runs generation cycles or clears the
\* cache, and the environment rewrites or removes the template
InitGenerate ==
    /\ EngineInit([procs |-> Procs,
                   kinds |-> {"execute", "clear_cache"},
                   names |-> {N_dashboard},
                   contexts |-> {ContextOf(MapInsert(EmptyMap, K_a, <<"v">>))},
                   renderers |-> {},
                   clock |-> {0},
                   contents |-> {Src_new, Src_bad},
                   maxCalls |-> MaxCalls,
                   maxWrites |-> MaxFileWrites, panics |-> FALSE],
                  [n \in {N_dashboard} |-> Some(Src_old)])
    /\ BinderIdle
    /\ ParserIdle
    /\ UnitIdle
    /\ GeneratorIdle
    /\ SchedulerIdle
    /\ StorageIdle
    /\ LoopIdle

NextGenerate ==
    \/ \E p \in Procs : CallExecute(p)
    \/ \E p \in Procs : HtmlRendered(p)
    \/ \E p \in Procs : TextRendered(p)
    \/ \E p \in Procs : CreateDir(p)
    \/ \E p \in Procs : WriteHtml(p)
    \/ \E p \in Procs : WriteText(p)
    \/ \E p \in Procs : CallClearCache(p)
    \/ \E p \in Procs : AcquireRead(p)
    \/ \E p \in Procs : LookupRelease(p)
    \/ \E p \in Procs : Exists(p)
    \/ \E p \in Procs : FromFile(p)
    \/ \E p \in Procs : AcquireWrite(p)
    \/ \E p \in Procs : InsertRelease(p)
    \/ \E p \in Procs : ClearRelease(p)
    \/ \E p \in Procs : ProcessBlocks(p)
    \/ \E p \in Procs : RenderTemplate(p)
    \/ \E p \in Procs : Substitute(p)
    \/ WriteFile
    \/ RemoveFile

SpecGenerate == InitGenerate /\ [][NextGenerate]_vars

\* a render of the cycle of thread p has failed
RenderFailed(p) ==
    /\ generation[p].stage # "idle"
    /\ \/ IsSome(generation[p].html_content) /\ ~Unwrap(generation[p].html_content).ok
       \/ IsSome(generation[p].text_content) /\ ~Unwrap(generation[p].text_content).ok

\* the error of the render that failed in the cycle of thread p
FailedRender(p) ==
    IF ~Unwrap(generation[p].html_content).ok
    THEN Unwrap(generation[p].html_content)
    ELSE Unwrap(generation[p].text_content)

\* C17: a generation cycle whose html render or text render has failed does
\* not reach write_output, has created and written nothing in the output
\* directory, and execute has returned the error of that render.
C17_FailedRenderWritesNothing ==
    \A p \in Procs :
        RenderFailed(p)
        => /\ generation[p].stage = "returned"
           /\ generation[p].written = {}
           /\ generation[p].returned = Some(FailedRender(p))

\* a cycle has rendered the html, its text render has failed, and another
\* cycle has written both files
C17_Witness ==
    \E p, q \in Procs :
        /\ RenderFailed(p)
        /\ Unwrap(generation[p].html_content).ok
        /\ generation[q].stage = "returned"
        /\ generation[q].written = {"dir", "html", "text"}

\* the html render of a cycle has failed
C17_HtmlFailed ==
    \E p \in Procs :
        /\ RenderFailed(p)
        /\ ~Unwrap(generation[p].html_content).ok

(***************************************************************************)
(* ScheduledTask::execute (scheduler.rs lines 36-67) on one scheduled      *)
(* task.  execute takes &mut self, so the calls follow one another.  The   *)
(* task is any implementation of the Task trait: what its execute returns  *)
(* is drawn from TaskResults.  The positions of a call:                    *)
(*   running     start_time is taken, the task is executing                *)
(*   returned    the match arm has run and execute has returned            *)
(***************************************************************************)
Error_GenerationError(msg) == [variant |-> "GenerationError", msg |-> msg]

\* what a Task's execute may return: Result<()>
TaskResults ==
    {Ok(<<>>),
     Err(Error_TemplateError("Template not found")),
     Err(Error_GenerationError("failed"))}

\* a match that counts every result of the task as a success
Counted_alwaysSuccess(t, start_time, r) ==
    [t EXCEPT !.success_count = @ + 1, !.last_run = Some(start_time)]

\* the match on the task's result (lines 42-65): the fields afterwards
Counted(t, start_time, r) ==
    IF r.ok
    THEN [t EXCEPT !.success_count = @ + 1, !.last_run = Some(start_time)]
    ELSE [t EXCEPT !.failure_count = @ + 1, !.last_run = Some(start_time)]

InitSchedule ==
    /\ EngineIdle
    /\ BinderIdle
    /\ ParserIdle
    /\ UnitIdle
    /\ GeneratorIdle
    /\ scheduled_task = ScheduledTask_new
    /\ StorageIdle
    /\ LoopIdle
    /\ execution = [pc |-> "idle"]
    /\ utc_now = 0
    /\ task_hist = [ok |-> 0, err |-> 0, last |-> NoneV]

\* let start_time = Utc::now() and the call of the task (lines 37-42)
ExecuteTask ==
    /\ execution.pc \in {"idle", "returned"}
    /\ task_hist.ok + task_hist.err < MaxRuns
    /\ execution' = [pc |-> "running", start_time |-> utc_now, before |-> scheduled_task]
    /\ UNCHANGED <<scheduled_task, utc_now, task_hist>>
    /\ UNCHANGED outsideScheduler

\* the task returns r, the match arm counts it and execute returns it
\* (lines 42-65)
TaskReturns ==
    /\ execution.pc = "running"
    /\ \E r \in TaskResults :
          /\ scheduled_task' = Counted(scheduled_task, execution.start_time, r)
          /\ execution' = [execution EXCEPT !.pc = "returned"] @@ [result |-> r]
          /\ task_hist' = [ok |-> task_hist.ok + (IF r.ok THEN 1 ELSE 0),
                           err |-> task_hist.err + (IF r.ok THEN 0 ELSE 1),
                           last |-> Some(r)]
    /\ UNCHANGED utc_now
    /\ UNCHANGED outsideScheduler

\* time passes
Tick ==
    /\ execution.pc # "off"
    /\ utc_now < MaxTime
    /\ utc_now' = utc_now + 1
    /\ UNCHANGED <<scheduled_task, execution, task_hist>>
    /\ UNCHANGED outsideScheduler

NextSchedule ==
    \/ ExecuteTask
    \/ TaskReturns
    \/ Tick

SpecSchedule == InitSchedule /\ [][NextSchedule]_vars

\* the last call has changed exactly the counter of its result, by one
OneCounterChanged ==
    LET r == execution.result
        b == execution.before
    IN  /\ scheduled_task.success_count = b.success_count + (IF r.ok THEN 1 ELSE 0)
        /\ scheduled_task.failure_count = b.failure_count + (IF r.ok THEN 0 ELSE 1)

\* C20: success_count is the number of calls whose task returned Ok and
\* failure_count the number whose task returned Err; a call that has
\* returned has changed exactly one of the counters, by one, has set
\* last_run to its start time, and has returned the result of the task.
C20_Counters ==
    /\ scheduled_task.success_count = task_hist.ok
    /\ scheduled_task.failure_count = task_hist.err
    /\ execution.pc = "returned"
       => /\ OneCounterChanged
          /\ scheduled_task.last_run = Some(execution.start_time)
          /\ Some(execution.result) = task_hist.last

\* calls of both kinds have returned, the last one an Err after time has
\* passed since the call before it
C20_Witness ==
    /\ execution.pc = "returned"
    /\ ~execution.result.ok
    /\ task_hist.ok >= 2
    /\ task_hist.err >= 2
    /\ IsSome(execution.before.last_run)
    /\ Unwrap(execution.before.last_run) < execution.start_time

(***************************************************************************)
(* The stores (storage/mod.rs).  Every method takes the lock of its store, *)
(* works on the Vec and drops the guard on return, so a call is one step.  *)
(* No method panics under a guard: the locks are never poisoned.  A record *)
(* carries its instants only.                                              *)
(***************************************************************************)
Stamps == 0..MaxStamp

\* Metric::with_timestamp, LogEntry::with_timestamp, Trace::with_times
StoreRecords(kind) ==
    IF kind = "traces"
    THEN [start_time : Stamps, end_time : Stamps]
    ELSE [timestamp : Stamps]

\* a filter whose upper bound is exclusive
InTimeRange_endExclusive(kind, r, start, end) ==
    IF kind = "traces"
    THEN r.start_time >= start /\ r.end_time < end
    ELSE r.timestamp >= start /\ r.timestamp < end

\* the closures of filter (lines 65, 219, 338)
InTimeRange(kind, r, start, end) ==
    IF kind = "traces"
    THEN r.start_time >= start /\ r.end_time <= end
    ELSE r.timestamp >= start /\ r.timestamp <= end

RECURSIVE FilterRange(_, _, _, _)
\* iter().filter(..).cloned().collect()
FilterRange(kind, records, start, end) ==
    IF records = <<>> THEN <<>>
    ELSE (IF InTimeRange(kind, Head(records), start, end) THEN <<Head(records)>> ELSE <<>>)
             \o FilterRange(kind, Tail(records), start, end)

CanUseStore == store_hist.calls >= 0 /\ store_hist.calls < MaxStoreCalls

InitStorage ==
    /\ EngineIdle
    /\ BinderIdle
    /\ ParserIdle
    /\ UnitIdle
    /\ GeneratorIdle
    /\ SchedulerIdle
    /\ LoopIdle
    /\ stores = Storage_new
    /\ store_query = NoneV
    /\ store_hist = [added |-> Storage_new,  \* the records added since the last clear
                     cleared |-> {},         \* the stores that have been cleared
                     last |-> "none",        \* the last call
                     calls |-> 0]            \* the calls so far

\* add (lines 18-27, 130-139, 267-276)
Storage_add ==
    /\ CanUseStore
    /\ \E kind \in StoreKinds : \E r \in StoreRecords(kind) :
          /\ Len(stores[kind]) < MaxStored
          /\ stores' = [stores EXCEPT ![kind] = Append(@, r)]
          /\ store_hist' = [store_hist EXCEPT !.added[kind] = Append(@, r),
                                              !.last = "add",
                                              !.calls = @ + 1]
    /\ UNCHANGED store_query
    /\ UNCHANGED outsideStorage

\* clear (lines 90-99, 227-236, 345-354)
Storage_clear ==
    /\ CanUseStore
    /\ \E kind \in StoreKinds :
          /\ stores[kind] # <<>>
          /\ stores' = [stores EXCEPT ![kind] = <<>>]
          /\ store_hist' = [store_hist EXCEPT !.added[kind] = <<>>,
                                              !.cleared = @ \cup {kind},
                                              !.last = "clear",
                                              !.calls = @ + 1]
    /\ UNCHANGED store_query
    /\ UNCHANGED outsideStorage

\* get_by_time_range (lines 52-71, 206-225, 327-343)
Storage_get_by_time_range ==
    /\ CanUseStore
    /\ \E kind \in StoreKinds, start \in Stamps, end \in Stamps :
          store_query' = Some([kind |-> kind, start |-> start, end |-> end,
                               before |-> stores,
                               returned |-> Ok(FilterRange(kind, stores[kind], start, end))])
    /\ store_hist' = [store_hist EXCEPT !.last = "get_by_time_range", !.calls = @ + 1]
    /\ UNCHANGED stores
    /\ UNCHANGED outsideStorage

NextStorage ==
    \/ Storage_add
    \/ Storage_clear
    \/ Storage_get_by_time_range

SpecStorage == InitStorage /\ [][NextStorage]_vars

\* the instants of a record lie in [start, end], both bounds included
WithinInclusive(r, start, end) ==
    IF "timestamp" \in DOMAIN r
    THEN start <= r.timestamp /\ r.timestamp <= end
    ELSE start <= r.start_time /\ r.end_time <= end

\* got holds exactly the elements of all that satisfy the range, in the
\* order of all: an increasing choice of positions of all that takes every
\* position in range and no other
IsSelection(got, all, start, end) ==
    \E pos \in [1..Len(got) -> 1..Len(all)] :
        /\ \A i, j \in 1..Len(got) : i < j => pos[i] < pos[j]
        /\ \A i \in 1..Len(got) : got[i] = all[pos[i]]
        /\ \A k \in 1..Len(all) :
              WithinInclusive(all[k], start, end) <=> (\E i \in 1..Len(got) : pos[i] = k)

\* C21: get_by_time_range on each store returns, in insertion order, exactly
\* the records added since the last clear whose instants lie in the range,
\* both bounds included, and leaves the stores as they were before the call.
C21_TimeRange ==
    store_hist.last = "get_by_time_range"
    => LET q == Unwrap(store_query)
       IN  /\ q.returned.ok
           /\ IsSelection(q.returned.val, store_hist.added[q.kind], q.start, q.end)
           /\ stores = q.before

\* a query on the traces, after a clear of the traces and two adds, has
\* returned the one record that starts on the lower bound and ends on the
\* upper bound, and has left the other record out
C21_Witness ==
    /\ store_hist.last = "get_by_time_range"
    /\ Unwrap(store_query).kind = "traces"
    /\ "traces" \in store_hist.cleared
    /\ Len(store_hist.added["traces"]) = 2
    /\ Len(Unwrap(store_query).returned.val) = 1
    /\ Unwrap(store_query).returned.val[1].start_time = Unwrap(store_query).start
    /\ Unwrap(store_query).returned.val[1].end_time = Unwrap(store_query).end
    /\ Unwrap(store_query).start < Unwrap(store_query).end

(***************************************************************************)
(* The Scheduler (scheduler.rs lines 87-212).  run and stop take the Mutex *)
(* of running and do not await while they hold it: each is one step.       *)
(* add_task waits for the Mutex of tasks and pushes.  Every loop spawned   *)
(* by run is a tokio task of its own.  The positions of a loop:            *)
(*   count     about to enter execute_all_tasks (first without a tick)     *)
(*   join      join_all is polling the futures of the round                *)
(*   tick      awaiting interval.tick()                                    *)
(*   read      the tick has fired, about to read running                   *)
(*   exited    the loop has left through break                             *)
(* A future of a round is waiting for the Mutex of tasks, executing (it    *)
(* holds the guard while the task's execute is awaited, lines 167-171),    *)
(* done or not_found.  No handle of a spawned loop is kept: nothing        *)
(* cancels a loop.                                                         *)
(***************************************************************************)
Error_SchedulerError(msg) == [variant |-> "SchedulerError", msg |-> msg]

\* the loops that have been spawned and have not left through break
Active(l) == loops[l].pc \notin {"none", "exited"}

\* self.running.lock() .. spawn .. Ok(()) (lines 107-146)
Scheduler_run ==
    /\ api.max_loops > 0
    /\ loop_hist.calls < MaxApiCalls
    /\ running \/ loop_hist.spawned < api.max_loops
    /\ IF running
       THEN /\ api' = [api EXCEPT !.result =
                          Some(Err(Error_SchedulerError("Scheduler is already running")))]
            /\ UNCHANGED <<running, loops>>
            /\ loop_hist' = [loop_hist EXCEPT
                                !.calls = @ + 1,
                                !.stopped = FALSE,
                                !.last = Some([op |-> "run", was_running |-> running,
                                               spawned_before |-> loop_hist.spawned])]
       ELSE /\ running' = TRUE
            /\ loops' = [loops EXCEPT ![loop_hist.spawned + 1] = [NoLoop EXCEPT !.pc = "count"]]
            /\ api' = [api EXCEPT !.result = Some(Ok(<<>>))]
            /\ loop_hist' = [loop_hist EXCEPT
                                !.calls = @ + 1,
                                !.spawned = @ + 1,
                                !.stopped = FALSE,
                                !.last = Some([op |-> "run", was_running |-> running,
                                               spawned_before |-> loop_hist.spawned])]
    /\ UNCHANGED <<tasks, tasks_lock>>
    /\ UNCHANGED outsideLoop

\* a stop that clears the flag whatever it was and always returns Ok
StopOutcome_always(was_running) == [running |-> FALSE, result |-> Ok(<<>>)]

\* the flag and the result of stop (lines 197-205)
StopOutcome(was_running) ==
    IF ~was_running
    THEN [running |-> was_running,
          result |-> Err(Error_SchedulerError("Scheduler is not running"))]
    ELSE [running |-> FALSE, result |-> Ok(<<>>)]

\* Scheduler::stop (lines 196-206)
Scheduler_stop ==
    /\ api.max_loops > 0
    /\ loop_hist.calls < MaxApiCalls
    /\ running' = StopOutcome(running).running
    /\ api' = [api EXCEPT !.result = Some(StopOutcome(running).result)]
    /\ loops' = [l \in Loops |->
                    IF StopOutcome(running).result.ok /\ loops[l].pc = "join"
                    THEN [loops[l] EXCEPT !.stopped_in_round = TRUE]
                    ELSE loops[l]]
    /\ loop_hist' = [loop_hist EXCEPT
                        !.calls = @ + 1,
                        !.stopped = @ \/ StopOutcome(running).result.ok,
                        !.ever_stopped = @ \/ StopOutcome(running).result.ok,
                        !.last = Some([op |-> "stop", was_running |-> running,
                                       spawned_before |-> loop_hist.spawned])]
    /\ UNCHANGED <<tasks, tasks_lock>>
    /\ UNCHANGED outsideLoop

\* add_task is called and waits for the Mutex of tasks (line 103)
Scheduler_add_task ==
    /\ api.max_loops > 0
    /\ ~api.add_pending
    /\ Len(tasks) < MaxTasks
    /\ api' = [api EXCEPT !.add_pending = TRUE]
    /\ UNCHANGED <<running, tasks, tasks_lock, loops, loop_hist>>
    /\ UNCHANGED outsideLoop

\* add_task has the Mutex: tasks.push(ScheduledTask::new(task)) (lines 103-105)
AddTaskPush ==
    /\ api.add_pending
    /\ tasks_lock = NoneV
    /\ tasks' = Append(tasks, ScheduledTask_new)
    /\ api' = [api EXCEPT !.add_pending = FALSE]
    /\ UNCHANGED <<running, tasks_lock, loops, loop_hist>>
    /\ UNCHANGED outsideLoop

\* execute_all_tasks, lines 152-163: the count under the Mutex, the return
\* when there is no task, the futures of the round
LoopCount(l) ==
    /\ loops[l].pc = "count"
    /\ tasks_lock = NoneV
    /\ loops' = [loops EXCEPT ![l] =
                    IF tasks = <<>>
                    THEN [@ EXCEPT !.pc = "tick", !.rounds = @ + 1,
                                   !.task_count = 0, !.futures = <<>>, !.ran = <<>>,
                                   !.stopped_in_round = FALSE]
                    ELSE [@ EXCEPT !.pc = "join", !.rounds = @ + 1,
                                   !.task_count = Len(tasks),
                                   !.futures = [i \in 1..Len(tasks) |-> "waiting"],
                                   !.ran = [i \in 1..Len(tasks) |-> 0],
                                   !.stopped_in_round = FALSE]]
    /\ UNCHANGED <<running, tasks, tasks_lock, api, loop_hist>>
    /\ UNCHANGED outsideLoop

\* a future gets the Mutex (line 167) and looks its task up (line 169): the
\* guard lives until the end of the async block
FutureLocks(l, i) ==
    /\ loops[l].pc = "join"
    /\ i \in 1..loops[l].task_count
    /\ loops[l].futures[i] = "waiting"
    /\ tasks_lock = NoneV
    /\ IF i <= Len(tasks)
       THEN /\ tasks_lock' = Some(<<l, i>>)
            /\ loops' = [loops EXCEPT ![l].futures[i] = "executing"]
            /\ UNCHANGED loop_hist
       ELSE /\ loops' = [loops EXCEPT ![l].futures[i] = "not_found"]
            /\ loop_hist' = [loop_hist EXCEPT !.not_found = TRUE]
            /\ UNCHANGED tasks_lock
    /\ UNCHANGED <<running, tasks, api>>
    /\ UNCHANGED outsideLoop

\* a round that gives the other futures up when a task fails
AfterTask_failFast(futures, i, r) ==
    IF r.ok THEN [futures EXCEPT ![i] = "done"] ELSE [k \in DOMAIN futures |-> "done"]

\* the futures of the round when the task of future i has returned r
\* (lines 170-171): the others are not touched
AfterTask(futures, i, r) == [futures EXCEPT ![i] = "done"]

\* task.execute().await returns (ScheduledTask::execute, lines 36-67), the
\* future completes and drops the guard
TaskDone(l, i) ==
    /\ loops[l].pc = "join"
    /\ i \in 1..loops[l].task_count
    /\ loops[l].futures[i] = "executing"
    /\ \E r \in TaskResults :
          /\ tasks' = [tasks EXCEPT ![i] = Counted(@, utc_now, r)]
          /\ loops' = [loops EXCEPT ![l].futures = AfterTask(@, i, r),
                                    ![l].ran[i] = @ + 1]
          /\ loop_hist' = [loop_hist EXCEPT !.failed = @ \/ ~r.ok]
    /\ tasks_lock' = NoneV
    /\ UNCHANGED <<running, api>>
    /\ UNCHANGED outsideLoop

\* join_all has every result (lines 186-193); the loop goes to its tick
JoinDone(l) ==
    /\ loops[l].pc = "join"
    /\ \A i \in 1..loops[l].task_count : loops[l].futures[i] \in {"done", "not_found"}
    /\ loops' = [loops EXCEPT ![l].pc = "tick"]
    /\ UNCHANGED <<running, tasks, tasks_lock, api, loop_hist>>
    /\ UNCHANGED outsideLoop

\* interval.tick().await completes (line 132)
LoopTick(l) ==
    /\ loops[l].pc = "tick"
    /\ loops' = [loops EXCEPT ![l].pc = "read"]
    /\ UNCHANGED <<running, tasks, tasks_lock, api, loop_hist>>
    /\ UNCHANGED outsideLoop

\* a loop that waits for the next tick when it reads false
AfterRead_waitsOn(is_running) == IF is_running THEN "count" ELSE "tick"

\* if !running { break; } (lines 135-137), else the next round (line 139)
AfterRead(is_running) == IF is_running THEN "count" ELSE "exited"

\* let running = *running_clone.lock().await; if !running { break; }
\* (lines 134-137)
ReadRunning(l) ==
    /\ loops[l].pc = "read"
    /\ running => loops[l].rounds < MaxRounds
    /\ loops' = [loops EXCEPT ![l].pc = AfterRead(running)]
    /\ UNCHANGED <<running, tasks, tasks_lock, api, loop_hist>>
    /\ UNCHANGED outsideLoop

InitLoop ==
    /\ EngineIdle
    /\ BinderIdle
    /\ ParserIdle
    /\ UnitIdle
    /\ GeneratorIdle
    /\ SchedulerIdle
    /\ StorageIdle
    /\ Scheduler_new(MaxLoops)

NextLoop ==
    \/ Scheduler_run
    \/ Scheduler_stop
    \/ Scheduler_add_task
    \/ AddTaskPush
    \/ \E l \in Loops : LoopCount(l)
    \/ \E l \in Loops : \E i \in 1..MaxTasks : FutureLocks(l, i)
    \/ \E l \in Loops : \E i \in 1..MaxTasks : TaskDone(l, i)
    \/ \E l \in Loops : JoinDone(l)
    \/ \E l \in Loops : LoopTick(l)
    \/ \E l \in Loops : ReadRunning(l)

SpecLoop == InitLoop /\ [][NextLoop]_vars

\* the tokio Mutex is fair, the ticks keep firing, every task returns and
\* every spawned loop is polled
FairLoop ==
    /\ \A l \in Loops : SF_vars(LoopCount(l))
    /\ \A l \in Loops : \A i \in 1..MaxTasks : SF_vars(FutureLocks(l, i))
    /\ \A l \in Loops : \A i \in 1..MaxTasks : WF_vars(TaskDone(l, i))
    /\ \A l \in Loops : WF_vars(JoinDone(l))
    /\ \A l \in Loops : WF_vars(LoopTick(l))
    /\ \A l \in Loops : WF_vars(ReadRunning(l))

\* one Scheduler whose callers call run once
InitLoopFair ==
    /\ EngineIdle
    /\ BinderIdle
    /\ ParserIdle
    /\ UnitIdle
    /\ GeneratorIdle
    /\ SchedulerIdle
    /\ StorageIdle
    /\ Scheduler_new(1)

SpecLoopFair == InitLoopFair /\ [][NextLoop]_vars /\ FairLoop

\* C22: execute_all_tasks does not hold the lock of the task list while the
\* execute of a task is awaited: whenever a future of a round is executing
\* its task, that future does not hold the Mutex of tasks.
C22_LockFreeWhileExecuting ==
    \A l \in Loops : \A i \in 1..loops[l].task_count :
        loops[l].futures[i] = "executing" => tasks_lock # Some(<<l, i>>)

\* an add_task call waits while a task executes
C22_AddTaskBlocked ==
    /\ api.add_pending
    /\ \E l \in Loops : \E i \in 1..loops[l].task_count : loops[l].futures[i] = "executing"

\* C23: run succeeds only when the scheduler is not running, and then sets
\* the flag and spawns one loop; run while running returns a SchedulerError
\* and spawns no loop; stop succeeds only when running and then clears the
\* flag; stop while not running returns a SchedulerError; a call that returns
\* an error leaves the flag as it was.  The flag and the number of loops
\* change in run and stop only, so the state after the last call shows them.
C23_RunStop ==
    IsSome(loop_hist.last)
    => LET c == Unwrap(loop_hist.last)
           r == Unwrap(api.result)
       IN  /\ r.ok <=> (IF c.op = "run" THEN ~c.was_running ELSE c.was_running)
           /\ ~r.ok => /\ r.err.variant = "SchedulerError"
                       /\ running = c.was_running
                       /\ loop_hist.spawned = c.spawned_before
           /\ (r.ok /\ c.op = "run")
              => /\ running
                 /\ loop_hist.spawned = c.spawned_before + 1
                 /\ loops[loop_hist.spawned].pc # "none"
           /\ (r.ok /\ c.op = "stop")
              => /\ ~running
                 /\ loop_hist.spawned = c.spawned_before

\* run, run, stop, stop: the second run and the second stop are errors
C23_Witness ==
    /\ loop_hist.calls = 4
    /\ loop_hist.spawned = 1
    /\ IsSome(loop_hist.last)
    /\ Unwrap(loop_hist.last).op = "stop"
    /\ ~Unwrap(api.result).ok
    /\ loop_hist.ever_stopped

\* C24: at most one loop of a Scheduler is active at any time: only the loop
\* spawned last starts a round of task execution.
C24_OneLoop ==
    [][\A l \in Loops : loops'[l].rounds > loops[l].rounds => l = loop_hist.spawned]_vars

\* two loops are in a round each
C24_TwoRounds ==
    \E l1, l2 \in Loops : l1 # l2 /\ loops[l1].pc = "join" /\ loops[l2].pc = "join"

\* C25: once stop has returned Ok, and as long as run is not called again, no
\* loop starts a round of task execution.
C25_NoRoundAfterStop ==
    [][(loop_hist.stopped /\ loop_hist.stopped')
         => \A l \in Loops : loops'[l].rounds = loops[l].rounds]_vars

\* every round that is over has run to its end: no future of it is left
\* waiting or executing
RoundsCompleted ==
    \A l \in Loops :
        loops[l].pc \in {"tick", "read", "exited"}
        => \A i \in 1..loops[l].task_count : loops[l].futures[i] \in {"done", "not_found"}

\* C26: when stop has returned Ok and run is not called again (the flag
\* stays false), every spawned loop eventually exits; a round in progress is
\* completed, not cancelled.
C26_LoopExits ==
    /\ []RoundsCompleted
    /\ <>[](~running) => <>[](\A l \in Loops : ~Active(l))

\* a loop has exited after a stop that came while its round of two tasks was
\* in progress, and the round has run both tasks
C26_Witness ==
    \E l \in Loops :
        /\ loops[l].pc = "exited"
        /\ loops[l].stopped_in_round
        /\ loops[l].task_count = 2
        /\ \A i \in 1..2 : loops[l].ran[i] = 1

\* C27: every round executes each task that was registered when it started
\* exactly once, whatever the other tasks return; a failing task does not
\* stop the loop (a loop exits only after a stop), and "Task not found" is
\* never produced.
C27_EachTaskOnce ==
    /\ ~loop_hist.not_found
    /\ \A l \in Loops :
          /\ loops[l].pc \in {"tick", "read", "exited"}
             => \A i \in 1..loops[l].task_count : loops[l].ran[i] = 1
          /\ loops[l].pc = "join"
             => \A i \in 1..loops[l].task_count :
                    loops[l].ran[i] = (IF loops[l].futures[i] = "done" THEN 1 ELSE 0)
          /\ loops[l].pc = "exited" => loop_hist.ever_stopped

\* the one loop has finished its second round of two tasks without a stop:
\* the first task has failed once and succeeded once, the second has run
\* twice
C27_Witness ==
    \E l \in Loops :
        /\ loop_hist.spawned = 1
        /\ ~loop_hist.ever_stopped
        /\ loops[l].rounds = 2
        /\ loops[l].pc = "tick"
        /\ loops[l].task_count = 2
        /\ tasks[1].failure_count = 1
        /\ tasks[1].success_count = 1
        /\ tasks[2].failure_count + tasks[2].success_count = 2

\* C28: the final substitution pass gives the same text for the same
\* rendered text and the same variables map, in whatever order the variables
\* are visited: checked on every render that is about to substitute.
C28_OrderIndependent ==
    \A p \in Procs :
        pc[p] = "substitute"
        => \A o1, o2 \in IterationOrders(DOMAIN call[p].context.variables) :
               substitute_variables_in_content(Unwrap(work[p]), call[p].context.variables, o1)
               = substitute_variables_in_content(Unwrap(work[p]), call[p].context.variables, o2)

\* C29: render_frame of the text renderer returns a box for every content,
\* every title and every terminal_width: no padding of create_box underflows.
C29_FrameBox ==
    (Rendered("Frame") /\ unit_renderer.kind = "text") => Unwrap(unit_output).ok

\* a frame of a text renderer has been rendered to a box
C29_BoxReturned ==
    /\ Rendered("Frame")
    /\ unit_renderer.kind = "text"
    /\ Unwrap(unit_output).ok
    /\ Unwrap(unit_block).content # <<>>
    /\ IsSome(Unwrap(unit_block).title)

(***************************************************************************)
(* Progress of the parser.  parse calls parse_block at cursor 1 and then   *)
(* at the cursor each returned block left; every call is looked at.        *)
(***************************************************************************)
\* what a call of parse_block at pos may do: return an error, return no
\* block with the cursor at the end, or return a block with the cursor moved
\* forward by at least one character and not past the end
BlockOutcome(content, pos, r) ==
    \/ ~r.ok /\ ~ParserPanicked(r)
    \/ r.ok /\ ~IsSome(r.val) /\ is_at_end(content, r.pos)
    \/ r.ok /\ IsSome(r.val) /\ r.pos > pos /\ r.pos <= Len(content) + 1

RECURSIVE CursorsFrom(_, _)
\* the cursors at which the loop of parse calls parse_block, from pos on
CursorsFrom(content, pos) ==
    IF parse_block(content, pos).ok /\ IsSome(parse_block(content, pos).val)
       /\ parse_block(content, pos).pos > pos
    THEN {pos} \cup CursorsFrom(content, parse_block(content, pos).pos)
    ELSE {pos}

\* the text holds a character of more than one byte
HasMultiByte(content) == \E i \in 1..Len(content) : len_utf8(content[i]) > 1

\* C30: parse terminates on every finite input: each call of parse_block
\* returns an error, or no block at the end of the input, or a block after
\* moving the cursor forward by at least one character; the cursor never
\* moves back and never passes the end of the input.
C30_ParseBlockProgress ==
    IsSome(parsed) =>
        \A pos \in CursorsFrom(SourceText, 1) :
            BlockOutcome(SourceText, pos, parse_block(SourceText, pos))

\* a text with a two-byte letter was parsed to its end and gave a block
C30_MultiByteParsed ==
    /\ IsSome(parsed)
    /\ HasMultiByte(SourceText)
    /\ Unwrap(parsed).ok
    /\ Unwrap(parsed).val.blocks # <<>>

\* on a text of one-byte characters every call of parse_block returns an
\* error, ends the loop at the end of the input, or moves the cursor forward
C30_AsciiProgress ==
    (IsSome(parsed) /\ ~HasMultiByte(SourceText)) =>
        \A pos \in CursorsFrom(SourceText, 1) :
            BlockOutcome(SourceText, pos, parse_block(SourceText, pos))
====
